---------------------------- MODULE Spec2Model ----------------------------
(***************************************************************************)
(* A model of the metriful driver (src/src/lib.rs, src/src/status.rs,      *)
(* src/src/unit.rs): the Session (struct Metriful), its ready-wait         *)
(* protocol, its mode state machine, its single-shot commands, its two     *)
(* iterators and its background strategy (a worker thread and two          *)
(* channels), running against an MS430 device that applies the commands    *)
(* it receives and drives the ready line on its own.                       *)
(*                                                                         *)
(* The thread that owns the Session is a stack machine: `stack` holds one  *)
(* frame per active call (the top frame first), `ret` the value the last   *)
(* returning call produced.  Every access to the ready line or to the bus  *)
(* is one step, so that the device can act between any two of them.  Time  *)
(* is counted in ticks of READY_POLL_INTERVAL (10 ms).                     *)
(*                                                                         *)
(* The unit codecs of unit.rs (MetrifulUnit::from_bytes on a cursor over a *)
(* buffer), read_f32_with_u8_denom of util.rs with its 32-bit float        *)
(* arithmetic, and CyclePeriod::to_value / from_value are operators;       *)
(* `dec` holds one application of them to one input.                       *)
(***************************************************************************)
EXTENDS Integers, Sequences, FiniteSets, TLC

VARIABLES
  dev,      \* the device's registers: opmode (0x8A), period (0x89), ...
  ready,    \* the level of the ready line: TRUE when asserted
  busy,     \* the device accepted a command and has not yet deasserted ready
  status,   \* Metriful.status: Option<DeviceStatus>
  stack,    \* the active calls, the innermost first
  ret,      \* the value returned by the call that returned last
  call,     \* the top-level call in progress (or the last one)
  trace,    \* what the current top-level call did to the ready line and the bus
  iter,     \* the iterator that borrows the Session, if any
  bg,       \* the background strategy: its thread and its two channels
  dec,      \* a decoding: the unit, the buffer and its cursor, the value
  since     \* milliseconds the Session has slept since its last bus write

vars == <<dev, ready, busy, status, stack, ret, call, trace, iter, bg, dec, since>>

---------------------------------------------------------------------------
(* Bounds of the model. *)

\* Timeouts are drawn from None and 0..MaxTimeout ticks.
MaxTimeout == 1

\* The worker of the background strategy starts at most MaxItems iterator steps
\* with no stop signal pending.
MaxItems == 2

\* The caller sends at most MaxStops stop signals to one worker.
MaxStops == 1

\* The interval of an Interval strategy is 1..MaxInterval ticks; the elapsed
\* time it reads saturates at MaxInterval.
MaxInterval == 2

---------------------------------------------------------------------------
(* Program constants. *)

CMD_ON_DEMAND_MEASURE == 225   \* 0xE1
CMD_RESET == 226               \* 0xE2
CMD_CYCLE_MODE == 228          \* 0xE4
CMD_STANDBY_MODE == 229        \* 0xE5
CMD_CLEAR_LIGHT_INT == 230     \* 0xE6
CMD_CLEAR_SOUND_INT == 231     \* 0xE7
REG_CYCLE_PERIOD == 137        \* 0x89
SLEEP_WRITE_MS == 6
SLEEP_CYCLE_MS == 11
READY_POLL_INTERVAL == 10

---------------------------------------------------------------------------
(* Data types. *)

CyclePeriods == {"Period0", "Period1", "Period2"}

\* CyclePeriod::to_value
to_value(p) ==
  CASE p = "Period0" -> 0
    [] p = "Period1" -> 1
    [] p = "Period2" -> 2

\* A from_value that takes every byte, modulo 3.
from_value_Wraps(v) ==
  [ok |-> TRUE, period |-> CHOOSE p \in CyclePeriods : to_value(p) = v % 3, value |-> v]

\* CyclePeriod::from_value: Ok(period) or Err(InvalidCyclePeriod(value))
from_value(v) ==
  CASE v = 0 -> [ok |-> TRUE, period |-> "Period0", value |-> v]
    [] v = 1 -> [ok |-> TRUE, period |-> "Period1", value |-> v]
    [] v = 2 -> [ok |-> TRUE, period |-> "Period2", value |-> v]
    [] OTHER -> [ok |-> FALSE, period |-> "NoPeriod", value |-> v]

\* OperationalMode
Standby == [tag |-> "Standby", period |-> "NoPeriod"]
Cycle(p) == [tag |-> "Cycle", period |-> p]
Modes == {Standby} \cup {Cycle(p) : p \in CyclePeriods}

\* A mode as one number, for the trace: 0 for Standby, 1 + to_value(p) for Cycle(p).
ModeCode(m) == IF m.tag = "Standby" THEN 0 ELSE 1 + to_value(m.period)

\* Option<Duration>, in ticks
NoTimeout == [some |-> FALSE, t |-> 0]
SomeTimeout(n) == [some |-> TRUE, t |-> n]
Timeouts == {NoTimeout} \cup {SomeTimeout(n) : n \in 0..MaxTimeout}

\* ParticleSensorMode::from_value
ParticleSensorMode_from_value(v) ==
  CASE v = 0 -> [ok |-> TRUE, mode |-> "Disabled"]
    [] v = 1 -> [ok |-> TRUE, mode |-> "EnabledPPD42"]
    [] v = 2 -> [ok |-> TRUE, mode |-> "EnabledSDS011"]
    [] OTHER -> [ok |-> FALSE, mode |-> "Invalid"]

\* DeviceStatus
DeviceStatus(ps, li, si, m) ==
  [particle_sensor |-> ps, light_int |-> li, sound_int |-> si, mode |-> m]
NoStatus == DeviceStatus("Disabled", "Disabled", "Disabled", Standby)

\* Option<DeviceStatus>
None == [some |-> FALSE, st |-> NoStatus]
Some(s) == [some |-> TRUE, st |-> s]

\* Result values: Ok(()), Ok(status), Err(e), and an iterator's None.
Pending == [kind |-> "Pending", err |-> "", st |-> NoStatus, current |-> Standby, required |-> Standby]
OkUnit == [kind |-> "Ok", err |-> "", st |-> NoStatus, current |-> Standby, required |-> Standby]
OkStatus(s) == [kind |-> "Ok", err |-> "", st |-> s, current |-> Standby, required |-> Standby]
Err(e) == [kind |-> "Err", err |-> e, st |-> NoStatus, current |-> Standby, required |-> Standby]
ErrInvalidMode(cur, req) ==
  [kind |-> "Err", err |-> "InvalidMode", st |-> NoStatus, current |-> cur, required |-> req]
IterNone == [kind |-> "None", err |-> "", st |-> NoStatus, current |-> Standby, required |-> Standby]

\* The metrics the Session is asked to read: one composite block and the
\* all-domains aggregate.
Metrics == {"METRIC_COMBINED_AIR_DATA", "METRIC_COMBINED_ALL"}

\* MetricTransfers with the particle block read first.
MetricTransfers_ParticleFirst(metric) ==
  IF metric = "METRIC_COMBINED_ALL"
    THEN << <<20, 6>>, <<16, 12>>, <<17, 10>>, <<18, 5>>, <<19, 18>> >>
    ELSE << <<16, 12>> >>

\* The block transfers Metric::read issues for a metric: <<register, length>> each.
\* The all-domains aggregate issues five, in this order.
MetricTransfers(metric) ==
  IF metric = "METRIC_COMBINED_ALL"
    THEN << <<16, 12>>, <<17, 10>>, <<18, 5>>, <<19, 18>>, <<20, 6>> >>
    ELSE << <<16, 12>> >>

\* OperationalMode::ready_duration, in milliseconds.
ready_duration(mode) ==
  IF mode.tag = "Standby" THEN 11
  ELSE IF mode.period = "Period0" THEN 600
  ELSE 2600

---------------------------------------------------------------------------
(* The device. *)

\* The operational mode the device is in, as its registers 0x8A and 0x89 say.
DeviceMode(d) ==
  IF d.opmode = 0 THEN Standby ELSE Cycle(from_value(d.period).period)

\* What a command byte (or a register write) does to the device's registers.
DeviceApply(d, cmd, data) ==
  CASE cmd = CMD_STANDBY_MODE -> [d EXCEPT !.opmode = 0]
    [] cmd = CMD_CYCLE_MODE -> [d EXCEPT !.opmode = 1]
    [] cmd = REG_CYCLE_PERIOD -> [d EXCEPT !.period = data]
    [] cmd = CMD_RESET -> [d EXCEPT !.opmode = 0, !.period = 0]
    [] OTHER -> d

\* The commands after which the device deasserts the ready line for a while.
DeviceBusyAfter(cmd) ==
  cmd \in {CMD_STANDBY_MODE, CMD_CYCLE_MODE, CMD_RESET, CMD_ON_DEMAND_MEASURE}

\* The device deasserts the ready line: it starts to process a command, or, in
\* cycle mode, it starts a new measurement cycle.
DeviceDeassert ==
  /\ ready
  /\ busy \/ dev.opmode = 1
  /\ ready' = FALSE
  /\ busy' = FALSE
  /\ UNCHANGED <<dev, status, stack, ret, call, trace, iter, bg, dec, since>>

\* The device asserts the ready line: the command is done, the measurement is
\* available.
DeviceAssert ==
  /\ ~ready
  /\ ready' = TRUE
  /\ UNCHANGED <<dev, busy, status, stack, ret, call, trace, iter, bg, dec, since>>

---------------------------------------------------------------------------
(* The stack machine. *)

Frame(fn, pc, mode, tmo, want, metric) ==
  [fn |-> fn, pc |-> pc, mode |-> mode, tmo |-> tmo, want |-> want,
   metric |-> metric, el |-> 0, polls |-> 0, n |-> 0]

Idle == stack = <<>>
Top == stack[1]
At(fn, pc) == ~Idle /\ Top.fn = fn /\ Top.pc = pc

\* The top frame returns r to its caller.
Return(r) ==
  /\ stack' = Tail(stack)
  /\ ret' = r

\* The top frame calls f and goes on at pc when f returns.
CallFrom(f, pc) ==
  /\ stack' = <<f>> \o <<[Top EXCEPT !.pc = pc]>> \o Tail(stack)
  /\ ret' = Pending

\* The top frame goes on at pc.
Goto(pc) ==
  /\ stack' = <<[Top EXCEPT !.pc = pc]>> \o Tail(stack)
  /\ UNCHANGED ret

Log(e) == trace' = Append(trace, e)
Log2(e1, e2) == trace' = trace \o <<e1, e2>>

\* The time slept since the last bus write after a further sleep of ms
\* milliseconds, counted up to SLEEP_WRITE_MS.
Slept(ms) == IF since + ms < SLEEP_WRITE_MS THEN since + ms ELSE SLEEP_WRITE_MS

\* Entries of the trace.
EvPoll(level) == <<"poll", IF level THEN 1 ELSE 0, 0>>
EvPollFail == <<"poll_fail", 0, 0>>
EvWrite(cmd, data) == <<"w", cmd, data>>
EvWriteFail(cmd, data) == <<"w_fail", cmd, data>>
EvSleep(ms) == <<"sleep", ms, 0>>
EvStatus(n, m) == <<"status", n, ModeCode(m)>>
EvStatusFail(k) == <<"status_fail", k, 0>>
EvRead(t) == <<"read", t[1], t[2]>>
EvReadFail(t) == <<"read_fail", t[1], t[2]>>

WaitFrame(tmo, want) ==
  Frame(IF want THEN "wait_for_ready_timeout" ELSE "wait_for_not_ready_timeout",
        "poll", Standby, tmo, want, "")
StatusFrame == Frame("read_status", "start", Standby, NoTimeout, TRUE, "")
NaiveFrame(m) ==
  Frame("set_mode_naive", "write", m, NoTimeout, TRUE, "")
ReadFrame(metric) == Frame("read", "ensure_ready", Standby, NoTimeout, TRUE, metric)
ExecFrame == Frame("execute_measurement", "check", Standby, NoTimeout, TRUE, "")

---------------------------------------------------------------------------
(* Metriful::wait_for_ready_timeout, Metriful::wait_for_not_ready_timeout *)

InWait == ~Idle /\ Top.fn \in {"wait_for_ready_timeout", "wait_for_not_ready_timeout"}

\* Whether a poll that read `level` ends the wait of the top frame.
WaitSatisfied(level) == level = Top.want

\* The comparison of the elapsed time with the timeout as `>=`.
TimeoutExceeded_AtLeast(f) == f.tmo.some /\ f.el >= f.tmo.t

\* `start.elapsed() > timeout`
TimeoutExceeded(f) == f.tmo.some /\ f.el > f.tmo.t

\* One pass of the loop: is_ready()?, then the timeout.
WaitPoll ==
  /\ InWait /\ Top.pc = "poll"
  /\ \/ /\ Log(EvPollFail)
        /\ Return(Err("GPIOError"))
     \/ /\ WaitSatisfied(ready)
        /\ Log(EvPoll(ready))
        /\ Return(OkUnit)
     \/ /\ ~WaitSatisfied(ready)
        /\ TimeoutExceeded(Top)
        /\ UNCHANGED trace
        /\ Return(Err("ReadyTimeoutExceeded"))
     \/ /\ ~WaitSatisfied(ready)
        /\ Top.tmo.some /\ ~TimeoutExceeded(Top)
        /\ UNCHANGED trace
        /\ Goto("sleep")
     \/ /\ ~WaitSatisfied(ready)
        /\ ~Top.tmo.some
        /\ UNCHANGED <<trace, ret>>
        /\ stack' = <<[Top EXCEPT !.polls = IF @ < 2 THEN @ + 1 ELSE @]>> \o Tail(stack)
  /\ UNCHANGED <<dev, ready, busy, status, call, iter, bg, dec, since>>

\* A sleep during which the clock of start.elapsed() stands still.
WaitSleep_NoTime ==
  /\ InWait /\ Top.pc = "sleep"
  /\ stack' = <<[Top EXCEPT !.pc = "poll", !.polls = 0]>> \o Tail(stack)
  /\ since' = Slept(READY_POLL_INTERVAL)
  /\ UNCHANGED <<dev, ready, busy, status, ret, call, trace, iter, bg, dec>>

\* thread::sleep(READY_POLL_INTERVAL): one tick.
WaitSleep ==
  /\ InWait /\ Top.pc = "sleep"
  /\ stack' = <<[Top EXCEPT !.pc = "poll", !.el = @ + 1, !.polls = 0]>> \o Tail(stack)
  /\ since' = Slept(READY_POLL_INTERVAL)
  /\ UNCHANGED <<dev, ready, busy, status, ret, call, trace, iter, bg, dec>>

\* Time passes while the loop runs: the clock read by start.elapsed() advances.
Tick ==
  /\ InWait /\ Top.pc = "poll"
  /\ Top.tmo.some /\ Top.el <= Top.tmo.t
  /\ stack' = <<[Top EXCEPT !.el = @ + 1]>> \o Tail(stack)
  /\ UNCHANGED <<dev, ready, busy, status, ret, call, trace, iter, bg, dec, since>>

---------------------------------------------------------------------------
(* DeviceStatus::read, Metriful::read_status *)

\* The registers DeviceStatus::read reads from a device in state d, in order.
StatusRegs(d) ==
  <<7, 129>>
  \o (IF d.light_en # 0 THEN <<131, 132, 130>> ELSE <<>>)
  \o <<134>>
  \o (IF d.sound_en # 0 THEN <<135, 134>> ELSE <<>>)
  \o <<138>>
  \o (IF d.opmode = 1 THEN <<137>> ELSE <<>>)

\* The mode DeviceStatus::read decodes from registers 0x8A and 0x89.
DecodeMode(opmode, period) ==
  CASE opmode = 0 -> [ok |-> TRUE, err |-> "", mode |-> Standby]
    [] opmode = 1 ->
         IF from_value(period).ok
           THEN [ok |-> TRUE, err |-> "", mode |-> Cycle(from_value(period).period)]
           ELSE [ok |-> FALSE, err |-> "InvalidCyclePeriod", mode |-> Standby]
    [] OTHER -> [ok |-> FALSE, err |-> "InvalidOperationalMode", mode |-> Standby]

\* DeviceStatus::read when no bus read fails.
DeviceStatusRead(d) ==
  DeviceStatus(ParticleSensorMode_from_value(d.particle).mode,
               IF d.light_en = 0 THEN "Disabled" ELSE "Enabled",
               IF d.sound_en = 0 THEN "Disabled" ELSE "Enabled",
               DecodeMode(d.opmode, d.period).mode)

\* A read_status that leaves the cache empty.
CachedAfterRead_Cleared(s) == None

\* What read_status caches when DeviceStatus::read returned s.
CachedAfterRead(s) == Some(s)

ReadStatus ==
  /\ At("read_status", "start")
  /\ \/ \E k \in 1..Len(StatusRegs(dev)) :
          /\ Log(EvStatusFail(k))
          /\ Return(Err("I2CError"))
          /\ UNCHANGED status
     \/ /\ ParticleSensorMode_from_value(dev.particle).ok
        /\ DecodeMode(dev.opmode, dev.period).ok
        /\ status' = CachedAfterRead(DeviceStatusRead(dev))
        /\ Log(EvStatus(Len(StatusRegs(dev)), DeviceStatusRead(dev).mode))
        /\ Return(OkStatus(DeviceStatusRead(dev)))
  /\ UNCHANGED <<dev, ready, busy, call, iter, bg, dec, since>>

---------------------------------------------------------------------------
(* Bus writes *)

\* smbus_write_byte(cmd) / smbus_write_byte_data(cmd, data), then a sleep of
\* `ms` milliseconds when ms > 0; `next` is what the frame does after it.
BusWriteOk(cmd, data, ms) ==
  /\ dev' = DeviceApply(dev, cmd, data)
  /\ busy' = (busy \/ DeviceBusyAfter(cmd))
  /\ IF ms > 0 THEN Log2(EvWrite(cmd, data), EvSleep(ms)) ELSE Log(EvWrite(cmd, data))
  /\ since' = IF ms < SLEEP_WRITE_MS THEN ms ELSE SLEEP_WRITE_MS

\* A failed bus write after which the frame stays where it is and writes again.
BusWriteFail_Retry(cmd, data) ==
  /\ Log(EvWriteFail(cmd, data))
  /\ UNCHANGED <<dev, busy, stack, ret, since>>

\* The write fails: `?` returns the bus error.
BusWriteFail(cmd, data) ==
  /\ Log(EvWriteFail(cmd, data))
  /\ Return(Err("I2CError"))
  /\ UNCHANGED <<dev, busy, since>>

---------------------------------------------------------------------------
(* Metriful::ensure_ready *)

\* EnsureReady that goes on when the line is deasserted.
EnsureReady_GoesOn(pc) ==
  \/ /\ Log(EvPollFail)
     /\ Return(Err("GPIOError"))
  \/ /\ Log(EvPoll(ready))
     /\ Goto(pc)

\* The first step of an operation that requires readiness: `self.ensure_ready()?`,
\* going on at pc when the line is asserted.
EnsureReady(pc) ==
  \/ /\ Log(EvPollFail)
     /\ Return(Err("GPIOError"))
  \/ /\ ~ready
     /\ Log(EvPoll(FALSE))
     /\ Return(Err("NotReady"))
  \/ /\ ready
     /\ Log(EvPoll(TRUE))
     /\ Goto(pc)


---------------------------------------------------------------------------
(* Metriful::set_mode_naive *)

\* NaiveWrites without the write of the period register.
NaiveWrites_NoPeriod(m) ==
  IF m.tag = "Standby"
    THEN << <<CMD_STANDBY_MODE, 0, 0>> >>
    ELSE << <<CMD_CYCLE_MODE, 0, SLEEP_CYCLE_MS>> >>

\* The bus writes set_mode_naive issues for a mode, in order: <<byte, data,
\* milliseconds slept after the write>> each.
NaiveWrites(m) ==
  IF m.tag = "Standby"
    THEN << <<CMD_STANDBY_MODE, 0, 0>> >>
    ELSE << <<REG_CYCLE_PERIOD, to_value(m.period), SLEEP_WRITE_MS>>,
            <<CMD_CYCLE_MODE, 0, SLEEP_CYCLE_MS>> >>

NaiveWrite ==
  /\ At("set_mode_naive", "write")
  /\ LET ws == NaiveWrites(Top.mode)
         w == ws[Top.n + 1]
     IN \/ BusWriteFail(w[1], w[2])
        \/ /\ BusWriteOk(w[1], w[2], w[3])
           /\ IF Top.n + 1 = Len(ws)
                THEN Return(OkUnit)
                ELSE /\ stack' = <<[Top EXCEPT !.n = @ + 1]>> \o Tail(stack)
                     /\ UNCHANGED ret
  /\ UNCHANGED <<ready, status, call, iter, bg, dec>>

---------------------------------------------------------------------------
(* Metriful::set_mode_timeout *)

\* A switch allowed between any two modes that differ.
is_switch_allowed_AnyChange(self, from) == self # from

\* OperationalMode::is_switch_allowed(&self, from)
is_switch_allowed(self, from) ==
  CASE self.tag = "Standby" -> from.tag # "Standby"
    [] self.tag = "Cycle" -> from.tag # "Cycle"

\* ModePlan without the guard `if a == b` of the second no-op arm.
ModePlan_NoCycleNoop(cur, target) ==
  CASE cur.tag = "Standby" /\ target.tag = "Standby" -> "noop"
    [] cur.tag = "Standby" /\ target.tag = "Cycle" -> "direct"
    [] cur.tag = "Cycle" /\ target.tag = "Standby" -> "direct"
    [] OTHER -> "via_standby"

\* ModePlan without the intermediate standby.
ModePlan_NoIntermediateStandby(cur, target) ==
  CASE cur.tag = "Standby" /\ target.tag = "Standby" -> "noop"
    [] cur.tag = "Cycle" /\ target.tag = "Cycle" /\ cur.period = target.period -> "noop"
    [] OTHER -> "direct"

\* The match on (status.mode, mode): what set_mode_timeout does to get from the
\* mode the device reports to the target.
ModePlan(cur, target) ==
  CASE cur.tag = "Standby" /\ target.tag = "Standby" -> "noop"
    [] cur.tag = "Cycle" /\ target.tag = "Cycle" /\ cur.period = target.period -> "noop"
    [] cur.tag = "Standby" /\ target.tag = "Cycle" -> "direct"
    [] cur.tag = "Cycle" /\ target.tag = "Standby" -> "direct"
    [] OTHER -> "via_standby"

\* `?`: the callee returned an error, and the top frame returns it.
Propagate ==
  /\ ret.kind = "Err"
  /\ Return(ret)
  /\ UNCHANGED trace

SetModeStart ==
  /\ At("set_mode_timeout", "start")
  /\ CallFrom(WaitFrame(Top.tmo, TRUE), "status1")
  /\ UNCHANGED <<dev, ready, busy, status, call, trace, iter, bg, dec, since>>

SetModeStatus1 ==
  /\ At("set_mode_timeout", "status1")
  /\ \/ Propagate
     \/ /\ ret.kind = "Ok"
        /\ CallFrom(StatusFrame, "match")
        /\ UNCHANGED trace
  /\ UNCHANGED <<dev, ready, busy, status, call, iter, bg, dec, since>>

SetModeMatch ==
  /\ At("set_mode_timeout", "match")
  /\ \/ Propagate
     \/ /\ ret.kind = "Ok"
        /\ ModePlan(ret.st.mode, Top.mode) = "noop"
        /\ CallFrom(WaitFrame(Top.tmo, TRUE), "status2")
        /\ UNCHANGED trace
     \/ /\ ret.kind = "Ok"
        /\ ModePlan(ret.st.mode, Top.mode) = "direct"
        /\ CallFrom(NaiveFrame(Top.mode), "wait3")
        /\ UNCHANGED trace
     \/ /\ ret.kind = "Ok"
        /\ ModePlan(ret.st.mode, Top.mode) = "via_standby"
        /\ CallFrom(NaiveFrame(Standby), "wait2")
        /\ UNCHANGED trace
  /\ UNCHANGED <<dev, ready, busy, status, call, iter, bg, dec, since>>

SetModeWait2 ==
  /\ At("set_mode_timeout", "wait2")
  /\ \/ Propagate
     \/ /\ ret.kind = "Ok"
        /\ CallFrom(WaitFrame(Top.tmo, TRUE), "naive2")
        /\ UNCHANGED trace
  /\ UNCHANGED <<dev, ready, busy, status, call, iter, bg, dec, since>>

SetModeNaive2 ==
  /\ At("set_mode_timeout", "naive2")
  /\ \/ Propagate
     \/ /\ ret.kind = "Ok"
        /\ CallFrom(NaiveFrame(Top.mode), "wait3")
        /\ UNCHANGED trace
  /\ UNCHANGED <<dev, ready, busy, status, call, iter, bg, dec, since>>

SetModeWait3 ==
  /\ At("set_mode_timeout", "wait3")
  /\ \/ Propagate
     \/ /\ ret.kind = "Ok"
        /\ CallFrom(WaitFrame(Top.tmo, TRUE), "status2")
        /\ UNCHANGED trace
  /\ UNCHANGED <<dev, ready, busy, status, call, iter, bg, dec, since>>

SetModeStatus2 ==
  /\ At("set_mode_timeout", "status2")
  /\ \/ Propagate
     \/ /\ ret.kind = "Ok"
        /\ CallFrom(StatusFrame, "done")
        /\ UNCHANGED trace
  /\ UNCHANGED <<dev, ready, busy, status, call, iter, bg, dec, since>>

\* `Ok(self.read_status()?)`: the status read's result is the call's result.
ReturnResult ==
  /\ ~Idle
  /\ Top.pc = "done"
  /\ Top.fn \in {"set_mode_timeout", "reset"}
  /\ Return(ret)
  /\ UNCHANGED <<dev, ready, busy, status, call, trace, iter, bg, dec, since>>

---------------------------------------------------------------------------
(* Metriful::reset, clear_light_interrupt, clear_sound_interrupt *)

\* CommandByte with the bytes of the two interrupt-clear commands exchanged.
CommandByte_Exchanged(fn) ==
  CASE fn = "reset" -> CMD_RESET
    [] fn = "clear_light_interrupt" -> CMD_CLEAR_SOUND_INT
    [] fn = "clear_sound_interrupt" -> CMD_CLEAR_LIGHT_INT
    [] fn = "execute_measurement" -> CMD_ON_DEMAND_MEASURE

\* The command byte of each single-command operation.
CommandByte(fn) ==
  CASE fn = "reset" -> CMD_RESET
    [] fn = "clear_light_interrupt" -> CMD_CLEAR_LIGHT_INT
    [] fn = "clear_sound_interrupt" -> CMD_CLEAR_SOUND_INT
    [] fn = "execute_measurement" -> CMD_ON_DEMAND_MEASURE

\* `self.ensure_ready()?` of reset, clear_light_interrupt, clear_sound_interrupt
\* and read.
OpEnsureReady ==
  /\ ~Idle
  /\ Top.fn \in {"reset", "clear_light_interrupt", "clear_sound_interrupt", "read"}
  /\ Top.pc = "ensure_ready"
  /\ EnsureReady(IF Top.fn = "read" THEN "transfer" ELSE "write")
  /\ UNCHANGED <<dev, ready, busy, status, call, iter, bg, dec, since>>

\* ResetWrite without sleep_write().
ResetWrite_NoSleep ==
  /\ At("reset", "write")
  /\ \/ BusWriteFail(CommandByte("reset"), 0)
     \/ /\ BusWriteOk(CommandByte("reset"), 0, 0)
        /\ CallFrom(WaitFrame(NoTimeout, TRUE), "status")
  /\ UNCHANGED <<ready, status, call, iter, bg, dec>>

\* reset: the command, sleep_write(), then wait_for_ready().
ResetWrite ==
  /\ At("reset", "write")
  /\ \/ BusWriteFail(CommandByte("reset"), 0)
     \/ /\ BusWriteOk(CommandByte("reset"), 0, SLEEP_WRITE_MS)
        /\ CallFrom(WaitFrame(NoTimeout, TRUE), "status")
  /\ UNCHANGED <<ready, status, call, iter, bg, dec>>

ResetStatus ==
  /\ At("reset", "status")
  /\ \/ Propagate
     \/ /\ ret.kind = "Ok"
        /\ CallFrom(StatusFrame, "done")
        /\ UNCHANGED trace
  /\ UNCHANGED <<dev, ready, busy, status, call, iter, bg, dec, since>>

\* clear_light_interrupt, clear_sound_interrupt, execute_measurement: the
\* command, then sleep_write().
CommandWrite ==
  /\ ~Idle
  /\ Top.fn \in {"clear_light_interrupt", "clear_sound_interrupt", "execute_measurement"}
  /\ Top.pc = "write"
  /\ \/ BusWriteFail(CommandByte(Top.fn), 0)
     \/ /\ BusWriteOk(CommandByte(Top.fn), 0, SLEEP_WRITE_MS)
        /\ Return(OkUnit)
  /\ UNCHANGED <<ready, status, call, iter, bg, dec>>

---------------------------------------------------------------------------
(* Metriful::execute_measurement *)

\* MeasurementGate without the check of the mode.
MeasurementGate_NoModeCheck(cached) ==
  IF ~cached.some THEN Err("StatusMissing") ELSE OkUnit

\* A gate that lets every call through.
MeasurementGate_Open(cached) == OkUnit

\* The gate on the cached status: the error execute_measurement returns before
\* it looks at the ready line, or OkUnit when it goes on.
MeasurementGate(cached) ==
  IF ~cached.some THEN Err("StatusMissing")
  ELSE IF cached.st.mode.tag # "Standby"
    THEN ErrInvalidMode(cached.st.mode, Standby)
    ELSE OkUnit

ExecuteCheck ==
  /\ At("execute_measurement", "check")
  /\ \/ /\ MeasurementGate(status).kind = "Err"
        /\ Return(MeasurementGate(status))
        /\ UNCHANGED trace
     \/ /\ MeasurementGate(status).kind = "Ok"
        /\ EnsureReady("write")
  /\ UNCHANGED <<dev, ready, busy, status, call, iter, bg, dec, since>>

---------------------------------------------------------------------------
(* Metriful::read, Metric::read, MetrifulUnit::read, UnitCombinedData::read *)

\* The blocks whose decoding can fail: those that hold an enumerant byte that
\* is rejected outside its known set (air quality, particle).  The decoding of
\* the sound block returns Ok for every byte.
DecodeCanFail(t) == t[1] \in {17, 20}

\* One block transfer and its decoding.
ReadTransfer ==
  /\ At("read", "transfer")
  /\ LET ts == MetricTransfers(Top.metric)
         t == ts[Top.n + 1]
     IN \/ /\ Log(EvReadFail(t))
           /\ Return(Err("I2CError"))
        \/ /\ DecodeCanFail(t)
           /\ Log(EvRead(t))
           /\ Return(Err("DecodeError"))
        \/ /\ Log(EvRead(t))
           /\ IF Top.n + 1 = Len(ts)
                THEN Return(OkUnit)
                ELSE /\ stack' = <<[Top EXCEPT !.n = @ + 1]>> \o Tail(stack)
                     /\ UNCHANGED ret
  /\ UNCHANGED <<dev, ready, busy, status, call, iter, bg, dec, since>>

---------------------------------------------------------------------------
(* The caller: one Session operation at a time. *)

\* No iterator borrows the Session.  Beside the iterator's own fields (metric,
\* cycle_period, timeout, first, error), `errs` counts the Err items it has
\* yielded so far (0, 1, or 2 for more than one).
NoIter == [kind |-> "none", metric |-> "", period |-> "NoPeriod", tmo |-> NoTimeout,
           first |-> FALSE, error |-> FALSE, errs |-> 0, interval |-> 0, slept |-> 0]

\* A top-level call: the operation, its arguments, the cached status when it
\* began, whether it repeats the call before it (a set_mode_timeout that
\* follows a set_mode_timeout of the same target that returned Ok), and the
\* iterator's count of Err items and its `first` when the call began.
CallRecord(op, mode, tmo, metric) ==
  [op |-> op, mode |-> mode, tmo |-> tmo, metric |-> metric, status0 |-> status,
   repeat |-> /\ op = "set_mode_timeout"
              /\ call.op = "set_mode_timeout"
              /\ call.mode = mode
              /\ ret.kind = "Ok",
   errs0 |-> iter.errs,
   first0 |-> iter.first]

\* The caller starts a top-level call.
Begin(op, frame, mode, tmo, metric) ==
  /\ Idle
  /\ stack' = <<frame>>
  /\ ret' = Pending
  /\ trace' = <<>>
  /\ call' = CallRecord(op, mode, tmo, metric)
  /\ UNCHANGED <<dev, ready, busy, status>>

\* No background strategy was started.  `phase` is where the worker thread is
\* ("none", "running", "exited", "joined"), `pc` where its loop is, `stop` the
\* number of () in the command channel, `tx` whether the caller still holds
\* the sender of the command channel, `rx` whether the caller still holds
\* the receiver of the result channel, `queue` the items in that channel,
\* `received` the items the caller took out of it, `produced` the items the
\* worker's iterator yielded, `exit` the way the loop ended.
NoBackground ==
  [phase |-> "none", pc |-> "", stop |-> 0, tx |-> TRUE, rx |-> TRUE, queue |-> <<>>,
   received |-> <<>>, produced |-> <<>>, exit |-> ""]

\* A Session the caller could use whatever thread it was moved into.
CallerOwns_Always == TRUE

\* The caller owns the Session: it was not moved into a worker thread, or the
\* thread was joined.
CallerOwns == bg.phase \in {"none", "joined"}

Free == Idle /\ iter.kind = "none" /\ CallerOwns

CallSetMode ==
  /\ Free
  /\ \E m \in Modes, t \in Timeouts :
       Begin("set_mode_timeout",
             Frame("set_mode_timeout", "start", m, t, TRUE, ""), m, t, "")
  /\ UNCHANGED <<iter, bg, dec, since>>

CallCommand ==
  /\ Free
  /\ \E fn \in {"reset", "clear_light_interrupt", "clear_sound_interrupt"} :
       Begin(fn, Frame(fn, "ensure_ready", Standby, NoTimeout, TRUE, ""),
             Standby, NoTimeout, "")
  /\ UNCHANGED <<iter, bg, dec, since>>

CallExecuteMeasurement ==
  /\ Free
  /\ Begin("execute_measurement", ExecFrame, Standby, NoTimeout, "")
  /\ UNCHANGED <<iter, bg, dec, since>>

CallRead ==
  /\ Free
  /\ \E metric \in Metrics :
       Begin("read", ReadFrame(metric), Standby, NoTimeout, metric)
  /\ UNCHANGED <<iter, bg, dec, since>>

CallReadStatus ==
  /\ Free
  /\ Begin("read_status", StatusFrame, Standby, NoTimeout, "")
  /\ UNCHANGED <<iter, bg, dec, since>>

CallWait ==
  /\ Free
  /\ \E t \in Timeouts, want \in BOOLEAN :
       Begin(WaitFrame(t, want).fn, WaitFrame(t, want), Standby, t, "")
  /\ UNCHANGED <<iter, bg, dec, since>>

---------------------------------------------------------------------------
(* MetricReadIterator, CycleReadIterator *)

\* Metriful::read_iter_timeout.  `slept` is the length of the sleep of the
\* step before: the time from that step's begin to its `last_instant` when its
\* first wait returned at once.
MetricReadIterator(metric, interval, tmo) ==
  [kind |-> "MetricReadIterator", metric |-> metric, period |-> "NoPeriod",
   tmo |-> tmo, first |-> FALSE, error |-> FALSE, errs |-> 0,
   interval |-> interval, slept |-> 0]

\* Metriful::cycle_read_iter_timeout
CycleReadIterator(metric, period, tmo) ==
  [kind |-> "CycleReadIterator", metric |-> metric, period |-> period,
   tmo |-> tmo, first |-> TRUE, error |-> FALSE, errs |-> 0,
   interval |-> 0, slept |-> 0]

\* The metric the iterators are made for: the all-domains aggregate.
IterMetrics == {"METRIC_COMBINED_ALL"}

\* The caller makes an iterator, which borrows the Session: a call that only
\* builds the iterator.
NewIterator ==
  /\ Free
  /\ \E metric \in IterMetrics, tmo \in Timeouts :
       \/ \E interval \in 1..MaxInterval :
            /\ iter' = MetricReadIterator(metric, interval, tmo)
            /\ call' = CallRecord("read_iter_timeout", Standby, tmo, metric)
       \/ \E p \in CyclePeriods :
            /\ iter' = CycleReadIterator(metric, p, tmo)
            /\ call' = CallRecord("cycle_read_iter_timeout", Cycle(p), tmo, metric)
  /\ trace' = <<>>
  /\ UNCHANGED <<dev, ready, busy, status, stack, ret, bg, dec, since>>

\* The caller drops the iterator.
DropIterator ==
  /\ Idle
  /\ iter.kind # "none"
  /\ iter' = NoIter
  /\ UNCHANGED <<dev, ready, busy, status, stack, ret, call, trace, bg, dec, since>>

\* The caller calls next().
CallNext ==
  /\ Idle
  /\ CallerOwns
  /\ iter.kind # "none"
  /\ Begin("next", Frame(iter.kind, "start", Standby, iter.tmo, TRUE, iter.metric),
           Standby, iter.tmo, iter.metric)
  /\ UNCHANGED <<iter, bg, dec, since>>

InNext == ~Idle /\ Top.fn \in {"MetricReadIterator", "CycleReadIterator"}

\* The iterator after a step failed, the flag left as it was.
IterAfterErr_NoFlag(it) == it

\* The iterator after a step failed: `self.error = true`.
IterAfterErr(it) == [it EXCEPT !.error = TRUE]

\* The iterator after the mode change of its first step: `self.first = false`.
IterAfterFirst(it) == [it EXCEPT !.first = FALSE]

\* next() returns Some(Err(e)), e the error its callee returned.
YieldErr ==
  /\ ret.kind = "Err"
  /\ Return(ret)
  /\ iter' = [IterAfterErr(iter) EXCEPT !.errs = IF @ < 2 THEN @ + 1 ELSE @]
  /\ UNCHANGED trace

\* `if self.error { return None; }`
NextAfterError ==
  /\ InNext /\ Top.pc = "start"
  /\ iter.error
  /\ Return(IterNone)
  /\ UNCHANGED <<dev, ready, busy, status, call, trace, iter, bg, dec, since>>

\* MetricReadIterator::next: the first wait_for_ready_timeout.
IntervalStart ==
  /\ At("MetricReadIterator", "start")
  /\ ~iter.error
  /\ CallFrom(WaitFrame(iter.tmo, TRUE), "sleep")
  /\ UNCHANGED <<dev, ready, busy, status, call, trace, iter, bg, dec, since>>

\* A sleep of the whole interval, whatever time has elapsed.
IntervalSleep_Whole(interval, elapsed) == interval

\* `if elapsed < self.interval { thread::sleep(self.interval - elapsed); }`:
\* the length of the sleep, 0 for none.
IntervalSleep(interval, elapsed) ==
  IF elapsed < interval THEN interval - elapsed ELSE 0

\* `self.last_instant.elapsed()` returned e, `began` ticks after the step
\* before began.
EvElapsed(e, began) == <<"elapsed", e, began>>

\* thread::sleep(self.interval - elapsed)
EvSleepInterval(d) == <<"sleep_interval", d, 0>>

\* The sleep of what is left of the interval since last_instant (none when
\* overdue), `self.last_instant = Instant::now()`, then execute_measurement.
\* The time since last_instant is any.
IntervalMeasure ==
  /\ At("MetricReadIterator", "sleep")
  /\ \/ YieldErr /\ UNCHANGED since
     \/ /\ ret.kind = "Ok"
        /\ \E e \in 0..MaxInterval :
             LET d == IntervalSleep(iter.interval, e)
             IN /\ trace' = trace \o <<EvElapsed(e, e + iter.slept)>>
                                 \o (IF d > 0 THEN <<EvSleepInterval(d)>> ELSE <<>>)
                /\ iter' = [iter EXCEPT !.slept = d]
                /\ since' = Slept(d * READY_POLL_INTERVAL)
        /\ CallFrom(ExecFrame, "wait")
  /\ UNCHANGED <<dev, ready, busy, status, call, bg, dec>>

\* `.and_then(|()| self.device.wait_for_ready_timeout(self.timeout))`
IntervalWait ==
  /\ At("MetricReadIterator", "wait")
  /\ \/ YieldErr
     \/ /\ ret.kind = "Ok"
        /\ CallFrom(WaitFrame(iter.tmo, TRUE), "read")
        /\ UNCHANGED <<trace, iter>>
  /\ UNCHANGED <<dev, ready, busy, status, call, bg, dec, since>>

\* A CycleReadIterator whose later steps wait for the ready line only.
CycleStart_NoEdge ==
  /\ At("CycleReadIterator", "start")
  /\ ~iter.error
  /\ \/ /\ iter.first
        /\ CallFrom(Frame("set_mode_timeout", "start", Cycle(iter.period), iter.tmo, TRUE, ""),
                    "first_read")
     \/ /\ ~iter.first
        /\ CallFrom(WaitFrame(iter.tmo, TRUE), "read")
  /\ UNCHANGED <<dev, ready, busy, status, call, trace, iter, bg, dec, since>>

\* CycleReadIterator::next: set_mode_timeout on the first step,
\* wait_for_not_ready_timeout on the later ones.
CycleStart ==
  /\ At("CycleReadIterator", "start")
  /\ ~iter.error
  /\ \/ /\ iter.first
        /\ CallFrom(Frame("set_mode_timeout", "start", Cycle(iter.period), iter.tmo, TRUE, ""),
                    "first_read")
     \/ /\ ~iter.first
        /\ CallFrom(WaitFrame(iter.tmo, FALSE), "wait")
  /\ UNCHANGED <<dev, ready, busy, status, call, trace, iter, bg, dec, since>>

\* The first step after set_mode_timeout: `self.first = false`, then the read.
CycleFirstRead ==
  /\ At("CycleReadIterator", "first_read")
  /\ \/ YieldErr
     \/ /\ ret.kind = "Ok"
        /\ iter' = IterAfterFirst(iter)
        /\ CallFrom(ReadFrame(iter.metric), "yield")
        /\ UNCHANGED trace
  /\ UNCHANGED <<dev, ready, busy, status, call, bg, dec, since>>

\* `.and_then(|()| self.device.wait_for_ready_timeout(self.timeout))`
CycleWait ==
  /\ At("CycleReadIterator", "wait")
  /\ \/ YieldErr
     \/ /\ ret.kind = "Ok"
        /\ CallFrom(WaitFrame(iter.tmo, TRUE), "read")
        /\ UNCHANGED <<trace, iter>>
  /\ UNCHANGED <<dev, ready, busy, status, call, bg, dec, since>>

\* `.and_then(|()| self.device.read(self.metric))`, in both iterators.
NextRead ==
  /\ InNext /\ Top.pc = "read"
  /\ \/ YieldErr
     \/ /\ ret.kind = "Ok"
        /\ CallFrom(ReadFrame(iter.metric), "yield")
        /\ UNCHANGED <<trace, iter>>
  /\ UNCHANGED <<dev, ready, busy, status, call, bg, dec, since>>

\* The result of the read is the item: Some(Ok(value)) or Some(Err(e)).
NextYield ==
  /\ InNext /\ Top.pc = "yield"
  /\ \/ YieldErr
     \/ /\ ret.kind = "Ok"
        /\ Return(ret)
        /\ UNCHANGED <<trace, iter>>
  /\ UNCHANGED <<dev, ready, busy, status, call, bg, dec, since>>

---------------------------------------------------------------------------
(* Metriful::async_cycle_read_timeout *)

\* The item a next() that returned r is: its place in the sequence of the items
\* the iterator yielded, Ok or Err, and the error.
Item(n, r) == <<n, r.kind, r.err>>

\* async_cycle_read_timeout: the Session moves into the spawned thread, which
\* makes the Cycle iterator; the caller keeps cmd_tx, metric_rx and the handle.
AsyncCycleRead ==
  /\ Free
  /\ bg.phase = "none"
  /\ \E metric \in IterMetrics, p \in CyclePeriods, tmo \in Timeouts :
       /\ iter' = CycleReadIterator(metric, p, tmo)
       /\ call' = CallRecord("async_cycle_read_timeout", Cycle(p), tmo, metric)
  /\ bg' = [NoBackground EXCEPT !.phase = "running", !.pc = "next"]
  /\ trace' = <<>>
  /\ UNCHANGED <<dev, ready, busy, status, stack, ret, dec, since>>

\* The worker's loop is at `pc`.
Worker(pc) == bg.phase = "running" /\ bg.pc = pc

\* A loop that ends without the thread returning.
WorkerExit_NoReturn(b, how) == [b EXCEPT !.pc = "", !.exit = how]

\* The loop ends in the way `how`: the iterator is dropped and the thread
\* returns `self`.
WorkerExit(b, how) == [b EXCEPT !.phase = "exited", !.pc = "", !.exit = how]

\* A channel that puts a sent item before the ones already in it.
Sent_Front(q, item) == <<item>> \o q

\* The channel after send(item): the item is behind the ones already in it.
Sent(q, item) == Append(q, item)

\* The item the loop holds: the one the last next() yielded.
HeldItem(b) == b.produced[Len(b.produced)]

\* `for metric in iter`: the loop calls next().
WorkerNext ==
  /\ Worker("next")
  /\ Len(bg.produced) < MaxItems \/ bg.stop > 0
  /\ Begin("next", Frame(iter.kind, "start", Standby, iter.tmo, TRUE, iter.metric),
           Standby, iter.tmo, iter.metric)
  /\ bg' = [bg EXCEPT !.pc = "step"]
  /\ UNCHANGED <<iter, dec, since>>

\* A try_recv that also succeeds when the sender is gone.
TryRecvOk_Disconnected(b) == b.stop > 0 \/ ~b.tx

\* `cmd_rx.try_recv().is_ok()`: a () is in the command channel; an empty
\* channel gives Err(Empty), or Err(Disconnected) when the sender is gone.
TryRecvOk(b) == b.stop > 0

\* A loop that sends the item it holds before it breaks on a stop signal.
BreakOnStop_AfterSend(b) ==
  WorkerExit([b EXCEPT !.stop = IF @ > 0 THEN @ - 1 ELSE 0,
                       !.queue = IF b.rx THEN Sent(@, HeldItem(b)) ELSE @], "stop")

\* `if cmd_rx.try_recv().is_ok() { break; }`: one () is taken and the loop
\* ends, the item it holds dropped.
BreakOnStop(b) == WorkerExit([b EXCEPT !.stop = IF @ > 0 THEN @ - 1 ELSE 0], "stop")

\* next() has returned: None ends the loop; with an item, `cmd_rx.try_recv()`
\* takes a stop signal, if there is one, and the loop breaks.
WorkerTryRecv ==
  /\ Worker("step")
  /\ Idle
  /\ LET b == [bg EXCEPT !.produced = Append(@, Item(Len(@) + 1, ret))]
     IN \/ /\ ret = IterNone
           /\ bg' = WorkerExit(bg, "none")
           /\ iter' = NoIter
        \/ /\ ret # IterNone
           /\ TryRecvOk(bg)
           /\ bg' = BreakOnStop(b)
           /\ iter' = NoIter
        \/ /\ ret # IterNone
           /\ ~TryRecvOk(bg)
           /\ bg' = [b EXCEPT !.pc = "send"]
           /\ UNCHANGED iter
  /\ UNCHANGED <<dev, ready, busy, status, stack, ret, call, trace, dec, since>>

\* A loop that goes on after a send of an Ok item, the receiver gone or not.
WorkerSend_GoesOn ==
  /\ Worker("send")
  /\ LET item == bg.produced[Len(bg.produced)]
         b == IF bg.rx THEN [bg EXCEPT !.queue = Sent(@, item)] ELSE bg
     IN \/ /\ item[2] = "Err"
           /\ bg' = WorkerExit(b, "error")
           /\ iter' = NoIter
        \/ /\ item[2] = "Ok"
           /\ bg' = [b EXCEPT !.pc = "next"]
           /\ UNCHANGED iter
  /\ UNCHANGED <<dev, ready, busy, status, stack, ret, call, trace, dec, since>>

\* `metric_tx.send(Err(e)).ok(); break`, or `metric_tx.send(Ok(metric))`, after
\* which the loop goes on if the send succeeded and breaks if the receiver is
\* gone.
WorkerSend ==
  /\ Worker("send")
  /\ LET item == bg.produced[Len(bg.produced)]
         b == IF bg.rx THEN [bg EXCEPT !.queue = Sent(@, item)] ELSE bg
     IN \/ /\ item[2] = "Err"
           /\ bg' = WorkerExit(b, "error")
           /\ iter' = NoIter
        \/ /\ item[2] = "Ok"
           /\ bg.rx
           /\ bg' = [b EXCEPT !.pc = "next"]
           /\ UNCHANGED iter
        \/ /\ item[2] = "Ok"
           /\ ~bg.rx
           /\ bg' = WorkerExit(b, "closed")
           /\ iter' = NoIter
  /\ UNCHANGED <<dev, ready, busy, status, stack, ret, call, trace, dec, since>>

\* The caller sends the stop signal: `cmd_tx.send(())`.
SendStop ==
  /\ bg.phase = "running"
  /\ bg.tx
  /\ bg.stop < MaxStops
  /\ bg' = [bg EXCEPT !.stop = @ + 1]
  /\ UNCHANGED <<dev, ready, busy, status, stack, ret, call, trace, iter, dec, since>>

\* The caller drops cmd_tx.
DropSender ==
  /\ bg.phase \in {"running", "exited"}
  /\ bg.tx
  /\ bg' = [bg EXCEPT !.tx = FALSE]
  /\ UNCHANGED <<dev, ready, busy, status, stack, ret, call, trace, iter, dec, since>>

\* The caller takes an item out of the result channel: `metric_rx.recv()`.
Receive ==
  /\ bg.rx
  /\ bg.queue # <<>>
  /\ bg' = [bg EXCEPT !.received = Append(@, Head(bg.queue)), !.queue = Tail(@)]
  /\ UNCHANGED <<dev, ready, busy, status, stack, ret, call, trace, iter, dec, since>>

\* The caller drops metric_rx.
DropReceiver ==
  /\ bg.phase \in {"running", "exited"}
  /\ bg.rx
  /\ bg' = [bg EXCEPT !.rx = FALSE]
  /\ UNCHANGED <<dev, ready, busy, status, stack, ret, call, trace, iter, dec, since>>

\* `handle.join()` returns the Session once the thread has returned it.
Join ==
  /\ bg.phase = "exited"
  /\ bg' = [bg EXCEPT !.phase = "joined"]
  /\ UNCHANGED <<dev, ready, busy, status, stack, ret, call, trace, iter, dec, since>>

---------------------------------------------------------------------------
(* util.rs, unit.rs: 32-bit floats and the Bytes cursor. *)

Pow2(n) == 2 ^ n

\* The position of the highest bit of x, x >= 1.
HighBit(x) == CHOOSE j \in 0..29 : Pow2(j) <= x /\ x < Pow2(j + 1)

\* n / 2^sh rounded to the nearest integer, a tie to the even one (sh >= 1).
RoundHalfEven(n, sh) ==
  LET q == n \div Pow2(sh)
      r == n % Pow2(sh)
      half == Pow2(sh - 1)
  IN IF r > half \/ (r = half /\ q % 2 = 1) THEN q + 1 ELSE q

\* An f32: (-1)^neg * mant / 2^scale, mant = 0 or 2^23 <= mant < 2^24.
F32(neg, mant, scale) ==
  IF mant = Pow2(24)
    THEN [neg |-> neg, mant |-> Pow2(23), scale |-> scale - 1]
    ELSE [neg |-> neg, mant |-> mant, scale |-> scale]

F32Zero == [neg |-> FALSE, mant |-> 0, scale |-> 0]

\* The f32 nearest to (-1)^neg * (a + b / 2^k), for integers a >= 0 and
\* 0 <= b < 2^k: the 24 highest bits, the rest rounded half to even.
F32Nearest(neg, a, b, k) ==
  IF a = 0
    THEN IF b = 0
           THEN F32Zero
           ELSE LET j == HighBit(b)
                IN IF j <= 23
                     THEN F32(neg, b * Pow2(23 - j), k + 23 - j)
                     ELSE F32(neg, RoundHalfEven(b, j - 23), k - (j - 23))
    ELSE LET j == HighBit(a)
             sh == k - 23 + j
         IN IF sh <= 0
              THEN F32(neg, a * Pow2(23 - j) + b * Pow2(0 - sh), 23 - j)
              ELSE F32(neg, a * Pow2(23 - j) + RoundHalfEven(b, sh), 23 - j)

\* `frac_part as f32 / 10f32`: the f32 nearest to frac_part / 10.
F32Div10(frac_part) ==
  IF frac_part = 0
    THEN F32Zero
    ELSE LET k == CHOOSE k \in 0..27 :
                    /\ 10 * Pow2(23) <= frac_part * Pow2(k)
                    /\ frac_part * Pow2(k) < 10 * Pow2(24)
             n == frac_part * Pow2(k)
             q == n \div 10
             r == n % 10
         IN F32(FALSE, IF r > 5 \/ (r = 5 /\ q % 2 = 1) THEN q + 1 ELSE q, k)

\* read_f32_with_u8_denom: int_part.into() is exact, the quotient is rounded
\* to an f32 and so is the sum.
read_f32_with_u8_denom(int_part, frac_part) ==
  LET q == F32Div10(frac_part)
      one == Pow2(q.scale)
      qi == q.mant \div one
      qr == q.mant % one
      i == int_part + qi
  IN IF i >= 0
       THEN F32Nearest(FALSE, i, qr, q.scale)
       ELSE IF qr = 0
              THEN F32Nearest(TRUE, 0 - i, 0, q.scale)
              ELSE F32Nearest(TRUE, 0 - i - 1, one - qr, q.scale)

\* A u32, as its two 16-bit halves.
U32(hi, lo) == [hi |-> hi, lo |-> lo]
U32Of(n) == U32(n \div 65536, n % 65536)

\* What a read of a Bytes leaves: the value and the Bytes past the cursor.
Got(v, rest) == [ok |-> TRUE, v |-> v, err |-> "", rest |-> rest]
Failed(e, byte, rest) == [ok |-> FALSE, v |-> byte, err |-> e, rest |-> rest]

Skip(bytes, n) == SubSeq(bytes, n + 1, Len(bytes))

\* Buf::get_u8, get_i8, get_u16_le, get_u32_le: the value at the cursor, which
\* moves past it.
get_u8(bytes) == Got(bytes[1], Skip(bytes, 1))
get_i8(bytes) == Got(IF bytes[1] >= 128 THEN bytes[1] - 256 ELSE bytes[1], Skip(bytes, 1))
get_u16_le(bytes) == Got(bytes[1] + 256 * bytes[2], Skip(bytes, 2))
get_u32_le(bytes) ==
  Got(U32(bytes[3] + 256 * bytes[4], bytes[1] + 256 * bytes[2]), Skip(bytes, 4))

---------------------------------------------------------------------------
(* unit.rs: the unit codecs.  A value is decoded from the Bytes that         *)
(* MetrifulUnit::read filled with len() bytes of a register; the unit and    *)
(* the time of a UnitValue are left out.                                     *)

\* A fixed-point value of a one-byte integer part and a fraction byte.
Fixed8(int_part) ==
  LET frac_part == get_u8(int_part.rest)
  IN Got(read_f32_with_u8_denom(int_part.v, frac_part.v), frac_part.rest)

\* A fixed-point value of a 16-bit integer part and a fraction byte.
Fixed16(bytes) ==
  LET int_part == get_u16_le(bytes)
      frac_part == get_u8(int_part.rest)
  IN Got(read_f32_with_u8_denom(int_part.v, frac_part.v), frac_part.rest)

\* UnitDegreesCelsius::from_bytes with the integer part read as a u8.
UnitDegreesCelsius_from_bytes_Unsigned(bytes) == Fixed8(get_u8(bytes))

UnitDegreesCelsius_from_bytes(bytes) == Fixed8(get_i8(bytes))
UnitPascals_from_bytes(bytes) == get_u32_le(bytes)
UnitRelativeHumidity_from_bytes(bytes) == Fixed8(get_u8(bytes))
UnitResistance_from_bytes(bytes) == get_u32_le(bytes)
UnitAirQualityIndex_from_bytes(bytes) == Fixed16(bytes)
UnitPartsPerMillion_from_bytes(bytes) == Fixed16(bytes)

\* AQIAccuracy::from_byte
AQIAccuracy_from_byte(byte, rest) ==
  CASE byte = 0 -> Got("Invalid", rest)
    [] byte = 1 -> Got("Low", rest)
    [] byte = 2 -> Got("Medium", rest)
    [] byte = 3 -> Got("High", rest)
    [] OTHER -> Failed("InvalidAQIAccuracy", byte, rest)

UnitAQIAccuracy_from_bytes(bytes) ==
  AQIAccuracy_from_byte(get_u8(bytes).v, get_u8(bytes).rest)

UnitIlluminance_from_bytes(bytes) == Fixed16(bytes)
UnitWhiteLevel_from_bytes(bytes) == get_u16_le(bytes)
UnitAWeightedSPL_from_bytes(bytes) == Fixed8(get_u8(bytes))

\* UnitSPLFrequencyBands::from_bytes: the slices &bytes[0..6] and &bytes[6..12]
\* start at the cursor and leave it where it is; the Vec of six always fits
\* the array, so DecibelBandsError is never returned.
UnitSPLFrequencyBands_from_bytes(bytes) ==
  Got([i \in 1..6 |-> read_f32_with_u8_denom(bytes[i], bytes[6 + i])], bytes)

UnitMillipascal_from_bytes(bytes) == Fixed16(bytes)

\* UnitSoundMeasurementStability::from_bytes: 1 is Stable, every other byte
\* Unstable.
UnitSoundMeasurementStability_from_bytes(bytes) ==
  CASE get_u8(bytes).v = 1 -> Got("Stable", get_u8(bytes).rest)
    [] OTHER -> Got("Unstable", get_u8(bytes).rest)

UnitPercent_from_bytes(bytes) == Fixed8(get_u8(bytes))

UnitRawParticleConcentration_from_bytes(bytes) ==
  LET uint_part == get_u16_le(bytes)
      frac_part == get_u8(uint_part.rest)
  IN Got([sds011_value |-> read_f32_with_u8_denom(uint_part.v, frac_part.v),
          ppd42_value |-> uint_part.v],
         frac_part.rest)

\* ParticleDataValidity::from_byte
ParticleDataValidity_from_byte(byte, rest) ==
  CASE byte = 0 -> Got("Initializing", rest)
    [] byte = 1 -> Got("Settled", rest)
    [] OTHER -> Failed("InvalidParticleDataValidity", byte, rest)

UnitParticleDataValidity_from_bytes(bytes) ==
  ParticleDataValidity_from_byte(get_u8(bytes).v, get_u8(bytes).rest)

\* UnitCombinedAirData::from_bytes with the humidity decoded before the pressure.
UnitCombinedAirData_from_bytes_HumidityFirst(bytes) ==
  LET temperature == UnitDegreesCelsius_from_bytes(bytes)
      humidity == UnitRelativeHumidity_from_bytes(temperature.rest)
      pressure == UnitPascals_from_bytes(humidity.rest)
      gas_sensor_resistance == UnitResistance_from_bytes(pressure.rest)
  IN Got([temperature |-> temperature.v,
          pressure |-> pressure.v,
          humidity |-> humidity.v,
          gas_sensor_resistance |-> gas_sensor_resistance.v],
         gas_sensor_resistance.rest)

UnitCombinedAirData_from_bytes(bytes) ==
  LET temperature == UnitDegreesCelsius_from_bytes(bytes)
      pressure == UnitPascals_from_bytes(temperature.rest)
      humidity == UnitRelativeHumidity_from_bytes(pressure.rest)
      gas_sensor_resistance == UnitResistance_from_bytes(humidity.rest)
  IN Got([temperature |-> temperature.v,
          pressure |-> pressure.v,
          humidity |-> humidity.v,
          gas_sensor_resistance |-> gas_sensor_resistance.v],
         gas_sensor_resistance.rest)

UnitCombinedAirQualityData_from_bytes(bytes) ==
  LET aqi == UnitAirQualityIndex_from_bytes(bytes)
      estimated_co2 == UnitPartsPerMillion_from_bytes(aqi.rest)
      estimated_voc == UnitPartsPerMillion_from_bytes(estimated_co2.rest)
      aqi_accuracy == UnitAQIAccuracy_from_bytes(estimated_voc.rest)
  IN IF ~aqi_accuracy.ok
       THEN aqi_accuracy
       ELSE Got([aqi |-> aqi.v,
                 estimated_co2 |-> estimated_co2.v,
                 estimated_voc |-> estimated_voc.v,
                 aqi_accuracy |-> aqi_accuracy.v],
                aqi_accuracy.rest)

UnitCombinedLightData_from_bytes(bytes) ==
  LET illuminance == UnitIlluminance_from_bytes(bytes)
      white_level == UnitWhiteLevel_from_bytes(illuminance.rest)
  IN Got([illuminance |-> illuminance.v, white_level |-> white_level.v],
         white_level.rest)

UnitCombinedSoundData_from_bytes(bytes) ==
  LET weighted_spl == UnitAWeightedSPL_from_bytes(bytes)
      spl_bands == UnitSPLFrequencyBands_from_bytes(weighted_spl.rest)
      peak_amplitude == UnitMillipascal_from_bytes(spl_bands.rest)
      measurement_stability == UnitSoundMeasurementStability_from_bytes(peak_amplitude.rest)
  IN IF ~measurement_stability.ok
       THEN measurement_stability
       ELSE Got([weighted_spl |-> weighted_spl.v,
                 spl_bands |-> spl_bands.v,
                 peak_amplitude |-> peak_amplitude.v,
                 measurement_stability |-> measurement_stability.v],
                measurement_stability.rest)

UnitCombinedParticleData_from_bytes(bytes) ==
  LET duty_cycle == UnitPercent_from_bytes(bytes)
      concentration == UnitRawParticleConcentration_from_bytes(duty_cycle.rest)
      validity == UnitParticleDataValidity_from_bytes(concentration.rest)
  IN IF ~validity.ok
       THEN validity
       ELSE Got([duty_cycle |-> duty_cycle.v,
                 concentration |-> concentration.v,
                 validity |-> validity.v],
                validity.rest)

\* UnitCombinedData::from_bytes
UnitCombinedData_from_bytes(bytes) == Failed("InvalidCombinedDataFromBytes", 0, bytes)

\* The units whose value is one field.
PlainUnits ==
  {"UnitDegreesCelsius", "UnitPascals", "UnitRelativeHumidity", "UnitResistance",
   "UnitAirQualityIndex", "UnitPartsPerMillion", "UnitAQIAccuracy",
   "UnitIlluminance", "UnitWhiteLevel", "UnitAWeightedSPL",
   "UnitSPLFrequencyBands", "UnitMillipascal", "UnitSoundMeasurementStability",
   "UnitPercent", "UnitRawParticleConcentration", "UnitParticleDataValidity"}

\* The units that are read as one block of several fields.
CompositeUnits ==
  {"UnitCombinedAirData", "UnitCombinedAirQualityData", "UnitCombinedLightData",
   "UnitCombinedSoundData", "UnitCombinedParticleData"}

Units == PlainUnits \cup CompositeUnits \cup {"UnitCombinedData"}

\* MetrifulUnit::len
len(unit) ==
  CASE unit = "UnitDegreesCelsius" -> 2
    [] unit = "UnitPascals" -> 4
    [] unit = "UnitRelativeHumidity" -> 2
    [] unit = "UnitResistance" -> 4
    [] unit = "UnitCombinedAirData" -> 12
    [] unit = "UnitAirQualityIndex" -> 3
    [] unit = "UnitPartsPerMillion" -> 3
    [] unit = "UnitAQIAccuracy" -> 1
    [] unit = "UnitCombinedAirQualityData" -> 10
    [] unit = "UnitIlluminance" -> 3
    [] unit = "UnitWhiteLevel" -> 2
    [] unit = "UnitCombinedLightData" -> 5
    [] unit = "UnitAWeightedSPL" -> 2
    [] unit = "UnitSPLFrequencyBands" -> 12
    [] unit = "UnitMillipascal" -> 3
    [] unit = "UnitSoundMeasurementStability" -> 1
    [] unit = "UnitCombinedSoundData" -> 18
    [] unit = "UnitPercent" -> 2
    [] unit = "UnitRawParticleConcentration" -> 3
    [] unit = "UnitParticleDataValidity" -> 1
    [] unit = "UnitCombinedParticleData" -> 6
    [] unit = "UnitCombinedData" -> 0

\* MetrifulUnit::from_bytes
from_bytes(unit, bytes) ==
  CASE unit = "UnitDegreesCelsius" -> UnitDegreesCelsius_from_bytes(bytes)
    [] unit = "UnitPascals" -> UnitPascals_from_bytes(bytes)
    [] unit = "UnitRelativeHumidity" -> UnitRelativeHumidity_from_bytes(bytes)
    [] unit = "UnitResistance" -> UnitResistance_from_bytes(bytes)
    [] unit = "UnitCombinedAirData" -> UnitCombinedAirData_from_bytes(bytes)
    [] unit = "UnitAirQualityIndex" -> UnitAirQualityIndex_from_bytes(bytes)
    [] unit = "UnitPartsPerMillion" -> UnitPartsPerMillion_from_bytes(bytes)
    [] unit = "UnitAQIAccuracy" -> UnitAQIAccuracy_from_bytes(bytes)
    [] unit = "UnitCombinedAirQualityData" -> UnitCombinedAirQualityData_from_bytes(bytes)
    [] unit = "UnitIlluminance" -> UnitIlluminance_from_bytes(bytes)
    [] unit = "UnitWhiteLevel" -> UnitWhiteLevel_from_bytes(bytes)
    [] unit = "UnitCombinedLightData" -> UnitCombinedLightData_from_bytes(bytes)
    [] unit = "UnitAWeightedSPL" -> UnitAWeightedSPL_from_bytes(bytes)
    [] unit = "UnitSPLFrequencyBands" -> UnitSPLFrequencyBands_from_bytes(bytes)
    [] unit = "UnitMillipascal" -> UnitMillipascal_from_bytes(bytes)
    [] unit = "UnitSoundMeasurementStability" -> UnitSoundMeasurementStability_from_bytes(bytes)
    [] unit = "UnitCombinedSoundData" -> UnitCombinedSoundData_from_bytes(bytes)
    [] unit = "UnitPercent" -> UnitPercent_from_bytes(bytes)
    [] unit = "UnitRawParticleConcentration" -> UnitRawParticleConcentration_from_bytes(bytes)
    [] unit = "UnitParticleDataValidity" -> UnitParticleDataValidity_from_bytes(bytes)
    [] unit = "UnitCombinedParticleData" -> UnitCombinedParticleData_from_bytes(bytes)
    [] unit = "UnitCombinedData" -> UnitCombinedData_from_bytes(bytes)

---------------------------------------------------------------------------
(* One decoding: a unit's from_bytes on a buffer, or CyclePeriod's          *)
(* to_value and from_value.                                                 *)

\* No decoding: `fn` is the function, `pc` whether it has run, `input` the
\* Bytes (or the one byte) handed to it, `period` the CyclePeriod to_value was
\* called on, `out` what the function returned and the Bytes it left.
NoDecode ==
  [fn |-> "none", pc |-> "done", unit |-> "", input |-> <<>>, period |-> "NoPeriod",
   out |-> Got(0, <<>>)]

\* The bytes of the integer parts and of the words of the sampled buffers.
SampleBytes == {0, 1, 21, 64, 127, 128, 139, 205, 226, 255}

\* The fraction bytes: the 0..99 the device sends, and one byte beyond.
FracBytes == 0..99 \cup {255}

\* A 12-byte block of six band integer parts and six band fraction bytes.
BandBytes(a, f) ==
  [i \in 1..12 |-> IF i <= 6 THEN (a + 41 * (i - 1)) % 256 ELSE (f + 17 * (i - 7)) % 100]

\* The buffers a unit is decoded from, each of len() bytes.
Inputs(unit) ==
  CASE unit \in {"UnitAQIAccuracy", "UnitSoundMeasurementStability",
                 "UnitParticleDataValidity"} ->
         {<<b>> : b \in 0..255}
    [] unit \in {"UnitDegreesCelsius", "UnitRelativeHumidity", "UnitAWeightedSPL",
                 "UnitPercent"} ->
         {<<i, f>> : i \in 0..255, f \in FracBytes}
    [] unit = "UnitWhiteLevel" ->
         {<<a, b>> : a \in SampleBytes, b \in SampleBytes}
    [] unit \in {"UnitAirQualityIndex", "UnitPartsPerMillion", "UnitIlluminance",
                 "UnitMillipascal", "UnitRawParticleConcentration"} ->
         {<<a, b, f>> : a \in SampleBytes, b \in SampleBytes, f \in FracBytes}
    [] unit \in {"UnitPascals", "UnitResistance"} ->
         {<<a, b, c, d>> : a \in SampleBytes, b \in SampleBytes,
                           c \in SampleBytes, d \in SampleBytes}
    [] unit = "UnitSPLFrequencyBands" ->
         {BandBytes(a, f) : a \in SampleBytes, f \in 0..99}
    [] unit = "UnitCombinedAirData" ->
         {t \o p \o h \o r :
            t \in {<<21, 5>>, <<246, 3>>},
            p \in {<<205, 139, 1, 0>>, <<255, 255, 255, 255>>},
            h \in {<<45, 2>>, <<100, 0>>},
            r \in {<<64, 226, 1, 0>>, <<0, 0, 0, 128>>}}
    [] unit = "UnitCombinedAirQualityData" ->
         {<<25, 0, 3>> \o c \o v \o <<b>> :
            c \in {<<144, 1, 0>>, <<255, 255, 99>>},
            v \in {<<0, 0, 5>>, <<1, 1, 1>>},
            b \in 0..255}
    [] unit = "UnitCombinedLightData" ->
         {i \o <<a, b>> :
            i \in {<<44, 1, 5>>, <<0, 0, 0>>}, a \in SampleBytes, b \in SampleBytes}
    [] unit = "UnitCombinedSoundData" ->
         {<<60, 5>> \o BandBytes(a, f) \o p \o <<b>> :
            a \in {21, 128}, f \in {0, 95},
            p \in {<<10, 0, 3>>, <<255, 255, 99>>},
            b \in 0..255}
    [] unit = "UnitCombinedParticleData" ->
         {d \o c \o <<b>> :
            d \in {<<50, 5>>, <<0, 0>>},
            c \in {<<57, 48, 2>>, <<0, 0, 0>>},
            b \in 0..255}
    [] unit = "UnitCombinedData" ->
         {<<>>} \cup {<<b>> : b \in 0..255}

\* U::from_bytes(&mut bytes)
FromBytes ==
  /\ dec.fn = "from_bytes"
  /\ dec.pc = "start"
  /\ dec' = [dec EXCEPT !.pc = "done", !.out = from_bytes(dec.unit, dec.input)]
  /\ UNCHANGED <<dev, ready, busy, status, stack, ret, call, trace, iter, bg, since>>

\* CyclePeriod::to_value
ToValue ==
  /\ dec.fn = "to_value"
  /\ dec.pc = "start"
  /\ dec' = [dec EXCEPT !.pc = "done", !.out = Got(to_value(dec.period), <<>>)]
  /\ UNCHANGED <<dev, ready, busy, status, stack, ret, call, trace, iter, bg, since>>

\* CyclePeriod::from_value, on a byte or on the byte to_value returned.
FromValue ==
  /\ \/ dec.fn = "from_value" /\ dec.pc = "start"
     \/ dec.fn = "to_value" /\ dec.pc = "done"
  /\ LET value == IF dec.fn = "to_value" THEN dec.out.v ELSE dec.input[1]
         r == from_value(value)
     IN dec' = [dec EXCEPT !.fn = "from_value",
                           !.pc = "done",
                           !.input = <<value>>,
                           !.out = IF r.ok THEN Got(r.period, <<>>)
                                           ELSE Failed("InvalidCyclePeriod", r.value, <<>>)]
  /\ UNCHANGED <<dev, ready, busy, status, stack, ret, call, trace, iter, bg, since>>

\* `match device.smbus_read_byte_data(0x83 / 0x87)? { 0 => Latch, _ => Comparator }`
InterruptMode_from_byte(byte) == IF byte = 0 THEN "Latch" ELSE "Comparator"

\* `match device.smbus_read_byte_data(0x84)? { 0 => Positive, _ => Negative }`
InterruptPolarity_from_byte(byte) == IF byte = 0 THEN "Positive" ELSE "Negative"

\* The bytes of the registers DeviceStatus::read decodes, as the sequence
\* <<0x07, 0x81, 0x83, 0x84, 0x86, 0x87, 0x8A, 0x89>>; the thresholds are left out.
StatusBytes(r07, r81, r83, r84, r86, r87, r8A, r89) ==
  <<r07, r81, r83, r84, r86, r87, r8A, r89>>

\* LightInterrupt::read after a byte of register 0x81: Disabled for 0,
\* Enabled with the mode and the polarity otherwise.
LightInterruptStatus(regs) ==
  IF regs[2] = 0
    THEN [status |-> "Disabled", mode |-> "", polarity |-> ""]
    ELSE [status |-> "Enabled", mode |-> InterruptMode_from_byte(regs[3]),
          polarity |-> InterruptPolarity_from_byte(regs[4])]

\* SoundInterrupt::read after a byte of register 0x86.
SoundInterruptStatus(regs) ==
  IF regs[5] = 0
    THEN [status |-> "Disabled", mode |-> "", polarity |-> ""]
    ELSE [status |-> "Enabled", mode |-> InterruptMode_from_byte(regs[6]), polarity |-> ""]

\* DeviceStatus::read on the bytes the registers return, no bus read failing.
DeviceStatus_read(regs) ==
  LET ps == ParticleSensorMode_from_value(regs[1])
      m == DecodeMode(regs[7], regs[8])
  IN IF ~ps.ok THEN Failed("InvalidParticleSensorMode", regs[1], <<>>)
     ELSE IF ~m.ok
       THEN Failed(m.err, IF m.err = "InvalidCyclePeriod" THEN regs[8] ELSE regs[7], <<>>)
     ELSE Got(DeviceStatus(ps.mode, LightInterruptStatus(regs), SoundInterruptStatus(regs),
                           m.mode), <<>>)

\* The register contents the status decoding is applied to: one register takes
\* every byte while the others hold one of a few settings.
StatusSettings ==
  {StatusBytes(0, 0, 0, 0, 0, 0, 0, 0), StatusBytes(1, 1, 1, 1, 1, 1, 1, 1),
   StatusBytes(2, 1, 0, 1, 1, 0, 1, 2)}
StatusInputs ==
  {[base EXCEPT ![r] = byte] : base \in StatusSettings, r \in 1..8, byte \in 0..255}

\* DeviceStatus::read on the bytes of dec.input.
StatusDecode ==
  /\ dec.fn = "status_read"
  /\ dec.pc = "start"
  /\ dec' = [dec EXCEPT !.pc = "done", !.out = DeviceStatus_read(dec.input)]
  /\ UNCHANGED <<dev, ready, busy, status, stack, ret, call, trace, iter, bg, since>>

---------------------------------------------------------------------------
(* error.rs, status.rs: the text of an InvalidMode error. *)

\* CyclePeriod::to_duration, in seconds.
to_duration(p) ==
  CASE p = "Period0" -> 3
    [] p = "Period1" -> 100
    [] p = "Period2" -> 300

\* `{:?}` of a CyclePeriod: the tuple struct CyclePeriod with the one field
\* format!("{}s", secs), a String, which Debug writes between quotes.
Debug_CyclePeriod(p) ==
  <<"CyclePeriod(", "\"", ToString(to_duration(p)), "s", "\"", ")">>

\* `{:?}` of an OperationalMode (derived).
Debug(mode) ==
  IF mode.tag = "Standby" THEN <<"Standby">>
  ELSE <<"Cycle(">> \o Debug_CyclePeriod(mode.period) \o <<")">>

\* Display of MetrifulError::InvalidMode: the format string with its two
\* `{:?}` filled from the arguments `current, required`, in that order.
Display(e) ==
  <<"command requires mode ">> \o Debug(e.current)
    \o <<" but current mode is ">> \o Debug(e.required)

\* The text of the error execute_measurement returns on a cached status whose
\* mode is Cycle(dec.period).
DisplayInvalidMode ==
  /\ dec.fn = "display"
  /\ dec.pc = "start"
  /\ LET e == MeasurementGate(Some([status.st EXCEPT !.mode = Cycle(dec.period)]))
     IN /\ e.kind = "Err"
        /\ e.err = "InvalidMode"
        /\ dec' = [dec EXCEPT !.pc = "done", !.out = Got(Display(e), <<>>)]
  /\ UNCHANGED <<dev, ready, busy, status, stack, ret, call, trace, iter, bg, since>>

---------------------------------------------------------------------------
(* The specification. *)

\* The devices a Session is constructed on.
Devices ==
  [opmode : {0, 1}, period : {0, 1, 2}, light_en : {0, 1}, sound_en : {0, 1},
   particle : {0}]

\* The state after Metriful::try_new: the ready line was seen asserted and the
\* status was read.
Init ==
  /\ dev \in Devices
  /\ ready = TRUE
  /\ busy = FALSE
  /\ status = Some(DeviceStatusRead(dev))
  /\ stack = <<>>
  /\ ret = OkUnit
  /\ call = [op |-> "try_new", mode |-> Standby, tmo |-> NoTimeout, metric |-> "",
             status0 |-> None, repeat |-> FALSE, errs0 |-> 0, first0 |-> FALSE]
  /\ trace = <<>>
  /\ iter = NoIter
  /\ bg = NoBackground
  /\ dec = NoDecode
  /\ since = SLEEP_WRITE_MS

Next ==
  \/ DeviceDeassert
  \/ DeviceAssert
  \/ WaitPoll
  \/ WaitSleep
  \/ Tick
  \/ ReadStatus
  \/ NaiveWrite
  \/ SetModeStart
  \/ SetModeStatus1
  \/ SetModeMatch
  \/ SetModeWait2
  \/ SetModeNaive2
  \/ SetModeWait3
  \/ SetModeStatus2
  \/ ReturnResult
  \/ OpEnsureReady
  \/ ResetWrite
  \/ ResetStatus
  \/ CommandWrite
  \/ ExecuteCheck
  \/ ReadTransfer
  \/ CallSetMode
  \/ CallCommand
  \/ CallExecuteMeasurement
  \/ CallRead
  \/ CallReadStatus
  \/ CallWait

Spec == Init /\ [][Next]_vars

\* The iterators, started on a Session in any state the single-shot operations
\* can leave it and the device in: the cached mode may differ from the device's.
\* The interrupts, which no iterator looks at, are disabled.
InitIter ==
  /\ dev \in {d \in Devices : d.light_en = 0 /\ d.sound_en = 0}
  /\ ready \in BOOLEAN
  /\ busy \in BOOLEAN
  /\ \E m \in Modes : status = Some([DeviceStatusRead(dev) EXCEPT !.mode = m])
  /\ stack = <<>>
  /\ ret = OkUnit
  /\ call = [op |-> "try_new", mode |-> Standby, tmo |-> NoTimeout, metric |-> "",
             status0 |-> None, repeat |-> FALSE, errs0 |-> 0, first0 |-> FALSE]
  /\ trace = <<>>
  /\ iter = NoIter
  /\ bg = NoBackground
  /\ dec = NoDecode
  /\ since = SLEEP_WRITE_MS

NextIter ==
  \/ DeviceDeassert
  \/ DeviceAssert
  \/ WaitPoll
  \/ WaitSleep
  \/ Tick
  \/ ReadStatus
  \/ NaiveWrite
  \/ SetModeStart
  \/ SetModeStatus1
  \/ SetModeMatch
  \/ SetModeWait2
  \/ SetModeNaive2
  \/ SetModeWait3
  \/ SetModeStatus2
  \/ ReturnResult
  \/ OpEnsureReady
  \/ CommandWrite
  \/ ExecuteCheck
  \/ ReadTransfer
  \/ NewIterator
  \/ DropIterator
  \/ CallNext
  \/ NextAfterError
  \/ IntervalStart
  \/ IntervalMeasure
  \/ IntervalWait
  \/ CycleStart
  \/ CycleFirstRead
  \/ CycleWait
  \/ NextRead
  \/ NextYield

SpecIter == InitIter /\ [][NextIter]_vars


\* execute_measurement alone, on a Session value whose cached status is any
\* Option<DeviceStatus>: None is the value of the field before the first status
\* read (the struct literal of try_new_device_timeout and try_new_timeout).
InitExec ==
  /\ dev \in {d \in Devices : d.light_en = 0 /\ d.sound_en = 0}
  /\ ready \in BOOLEAN
  /\ busy \in BOOLEAN
  /\ \/ status = None
     \/ \E m \in Modes : status = Some([DeviceStatusRead(dev) EXCEPT !.mode = m])
  /\ stack = <<>>
  /\ ret = OkUnit
  /\ call = [op |-> "try_new", mode |-> Standby, tmo |-> NoTimeout, metric |-> "",
             status0 |-> None, repeat |-> FALSE, errs0 |-> 0, first0 |-> FALSE]
  /\ trace = <<>>
  /\ iter = NoIter
  /\ bg = NoBackground
  /\ dec = NoDecode
  /\ since = SLEEP_WRITE_MS

NextExec ==
  \/ DeviceDeassert
  \/ DeviceAssert
  \/ CallExecuteMeasurement
  \/ ExecuteCheck
  \/ CommandWrite

SpecExec == InitExec /\ [][NextExec]_vars

\* The two ready waits alone, called on a device in any state, with the thread
\* scheduled fairly: a poll whose ready-line read succeeds is eventually made,
\* a sleep eventually ends.  No failure of the ready-line read and no move of
\* the device is ever forced.
InitWait == InitIter

NextWait ==
  \/ DeviceDeassert
  \/ DeviceAssert
  \/ CallWait
  \/ WaitPoll
  \/ WaitSleep
  \/ Tick

FairWait ==
  /\ WF_vars(WaitPoll /\ ret' # Err("GPIOError"))
  /\ WF_vars(WaitSleep)

SpecWait == InitWait /\ [][NextWait]_vars /\ FairWait

\* The background strategy, started on a new Session, and the single-shot
\* operations of the caller once it has the Session back.  The worker's loop is
\* scheduled fairly; the steps of its iterator, the device and the caller are
\* not.
InitAsync == Init /\ dev.light_en = 0 /\ dev.sound_en = 0

NextAsync ==
  \/ DeviceDeassert
  \/ DeviceAssert
  \/ WaitPoll
  \/ WaitSleep
  \/ Tick
  \/ ReadStatus
  \/ NaiveWrite
  \/ SetModeStart
  \/ SetModeStatus1
  \/ SetModeMatch
  \/ SetModeWait2
  \/ SetModeNaive2
  \/ SetModeWait3
  \/ SetModeStatus2
  \/ ReturnResult
  \/ OpEnsureReady
  \/ ReadTransfer
  \/ CycleStart
  \/ CycleFirstRead
  \/ CycleWait
  \/ NextRead
  \/ NextYield
  \/ AsyncCycleRead
  \/ WorkerNext
  \/ WorkerTryRecv
  \/ WorkerSend
  \/ SendStop
  \/ DropSender
  \/ Receive
  \/ DropReceiver
  \/ Join
  \/ CallReadStatus
  \/ CallRead

FairAsync ==
  /\ WF_vars(WorkerNext)
  /\ WF_vars(WorkerTryRecv)
  /\ WF_vars(WorkerSend)

SpecAsync == InitAsync /\ [][NextAsync]_vars /\ FairAsync

\* The codecs alone: one function of unit.rs or status.rs on one input, on a
\* Session that does nothing meanwhile.
InitCodec ==
  /\ dev = [opmode |-> 0, period |-> 0, light_en |-> 0, sound_en |-> 0, particle |-> 0]
  /\ ready = TRUE
  /\ busy = FALSE
  /\ status = Some(DeviceStatusRead(dev))
  /\ stack = <<>>
  /\ ret = OkUnit
  /\ call = [op |-> "try_new", mode |-> Standby, tmo |-> NoTimeout, metric |-> "",
             status0 |-> None, repeat |-> FALSE, errs0 |-> 0, first0 |-> FALSE]
  /\ trace = <<>>
  /\ iter = NoIter
  /\ bg = NoBackground
  /\ since = SLEEP_WRITE_MS
  /\ \/ \E unit \in Units : \E input \in Inputs(unit) :
          dec = [NoDecode EXCEPT !.fn = "from_bytes", !.pc = "start",
                                 !.unit = unit, !.input = input]
     \/ \E v \in 0..255 :
          dec = [NoDecode EXCEPT !.fn = "from_value", !.pc = "start", !.input = <<v>>]
     \/ \E p \in CyclePeriods :
          dec = [NoDecode EXCEPT !.fn = "to_value", !.pc = "start", !.period = p]
     \/ \E regs \in StatusInputs :
          dec = [NoDecode EXCEPT !.fn = "status_read", !.pc = "start", !.input = regs]
     \/ \E p \in CyclePeriods :
          dec = [NoDecode EXCEPT !.fn = "display", !.pc = "start", !.period = p]

NextCodec ==
  \/ FromBytes
  \/ ToValue
  \/ FromValue
  \/ StatusDecode
  \/ DisplayInvalidMode

SpecCodec == InitCodec /\ [][NextCodec]_vars

---------------------------------------------------------------------------
(* Reading the trace. *)

\* The bus writes of a trace, attempted ones included.
Writes(tr) == SelectSeq(tr, LAMBDA e : e[1] \in {"w", "w_fail"})

\* The bus and ready-line accesses of a trace that failed.
Failures(tr) ==
  SelectSeq(tr, LAMBDA e : e[1] \in {"w_fail", "poll_fail", "status_fail", "read_fail"})

\* The status reads of a trace that succeeded.
StatusReads(tr) == SelectSeq(tr, LAMBDA e : e[1] = "status")

\* A trace without a failed access at its end.
Succeeded(tr) ==
  IF tr # <<>> /\ Failures(<<tr[Len(tr)]>>) # <<>> THEN SubSeq(tr, 1, Len(tr) - 1) ELSE tr

\* A trace with the number of registers of each status read left out.
Shape(tr) ==
  [i \in 1..Len(tr) |-> IF tr[i][1] = "status" THEN <<"status", 0, tr[i][3]>> ELSE tr[i]]

IsPrefix(a, b) == Len(a) <= Len(b) /\ a = SubSeq(b, 1, Len(a))

\* The mode the first status read of the call reported, as a ModeCode.
Reported(tr) == StatusReads(tr)[1][3]

---------------------------------------------------------------------------
(* Claims. *)

\* C1: when the mode the first status read of set_mode_timeout reports equals
\* the target, the call attempts no bus write; and a set_mode_timeout that
\* follows a successful set_mode_timeout of the same target attempts none.
C1_SameModeNoWrite ==
  call.op = "set_mode_timeout" =>
    /\ (StatusReads(trace) # <<>> /\ Reported(trace) = ModeCode(call.mode))
         => Writes(trace) = <<>>
    /\ call.repeat => Writes(trace) = <<>>

\* C1, witness: a second set_mode_timeout(Cycle(Period1)) has returned Ok
\* after a first one did.
C1_Witness ==
  /\ Idle
  /\ call.op = "set_mode_timeout"
  /\ call.repeat
  /\ call.mode = Cycle("Period1")
  /\ ret.kind = "Ok"
  /\ Writes(trace) = <<>>

\* What set_mode_timeout(Cycle(b)) does from Cycle(a), a # b, when nothing fails.
CrossCycleTrace(a, b) ==
  << EvPoll(TRUE), <<"status", 0, a>>,
     EvWrite(CMD_STANDBY_MODE, 0), EvPoll(TRUE),
     EvWrite(REG_CYCLE_PERIOD, b - 1), EvSleep(SLEEP_WRITE_MS),
     EvWrite(CMD_CYCLE_MODE, 0), EvSleep(SLEEP_CYCLE_MS),
     EvPoll(TRUE), <<"status", 0, b>> >>

\* C2: set_mode_timeout(Cycle(b)) whose first status read reports Cycle(a),
\* a # b, writes 0xE5, waits for ready, writes 0x89 := to_value(b), then 0xE4:
\* what it has done is at every moment a prefix of that sequence, and all of
\* it when it returns Ok.
C2_CrossCycleOrder ==
  ( /\ call.op = "set_mode_timeout"
    /\ call.mode.tag = "Cycle"
    /\ StatusReads(trace) # <<>>
    /\ Reported(trace) # 0
    /\ Reported(trace) # ModeCode(call.mode) )
  =>
    LET full == CrossCycleTrace(Reported(trace), ModeCode(call.mode)) IN
      /\ IsPrefix(Shape(Succeeded(trace)), full)
      /\ (Idle /\ ret.kind = "Ok") => Shape(trace) = full

\* C2, witness: set_mode_timeout(Cycle(Period0)) has returned Ok from
\* Cycle(Period2), having written 0xE5, 0x89 and 0xE4.
C2_Witness ==
  /\ Idle
  /\ call.op = "set_mode_timeout"
  /\ call.mode = Cycle("Period0")
  /\ ret.kind = "Ok"
  /\ StatusReads(trace) # <<>>
  /\ Reported(trace) = ModeCode(Cycle("Period2"))
  /\ Len(Writes(trace)) = 3

\* C3: set_mode_timeout ends either Ok, with a status whose mode is the target
\* and is the device's, and which is the cached status; or with a transport
\* error or a timeout that did occur.
C3_SetModeReachesTarget ==
  (Idle /\ call.op = "set_mode_timeout") =>
    \/ /\ ret.kind = "Ok"
       /\ ret.st.mode = call.mode
       /\ ret.st.mode = DeviceMode(dev)
       /\ status = Some(ret.st)
       /\ Failures(trace) = <<>>
    \/ /\ ret.kind = "Err"
       /\ \/ ret.err = "ReadyTimeoutExceeded" /\ call.tmo.some
          \/ ret.err = "GPIOError" /\ trace[Len(trace)][1] = "poll_fail"
          \/ ret.err = "I2CError" /\ trace[Len(trace)][1] \in {"w_fail", "status_fail"}

\* C3, witness: set_mode_timeout(Standby) has returned Ok on a device that was
\* in Cycle(Period1).
C3_Witness ==
  /\ Idle
  /\ call.op = "set_mode_timeout"
  /\ call.mode = Standby
  /\ call.status0.st.mode = Cycle("Period1")
  /\ ret.kind = "Ok"
  /\ Writes(trace) = <<EvWrite(CMD_STANDBY_MODE, 0)>>


\* C4: execute_measurement on a Session without a cached status returns
\* StatusMissing, and on one whose cached mode is a Cycle returns InvalidMode
\* with that mode as current and Standby as required; in both cases it touches
\* neither the ready line nor the bus and leaves the cached status as it was.
C4_MeasurementGate ==
  (Idle /\ call.op = "execute_measurement") =>
    /\ ~call.status0.some =>
         /\ ret = Err("StatusMissing")
         /\ trace = <<>>
         /\ status = call.status0
    /\ (call.status0.some /\ call.status0.st.mode.tag = "Cycle") =>
         /\ ret = ErrInvalidMode(call.status0.st.mode, Standby)
         /\ trace = <<>>
         /\ status = call.status0

\* C4, witness: execute_measurement has returned StatusMissing on a Session
\* without a cached status while the ready line was asserted.
C4_Witness ==
  /\ Idle
  /\ call.op = "execute_measurement"
  /\ ~call.status0.some
  /\ ready
  /\ ret.err = "StatusMissing"

\* The operations that begin with ensure_ready.
ReadyOps ==
  {"reset", "clear_light_interrupt", "clear_sound_interrupt", "execute_measurement", "read"}

\* C5: reset, clear_light_interrupt, clear_sound_interrupt, execute_measurement
\* (cached mode Standby) and read, when their check of the ready line finds it
\* deasserted, return NotReady, having done nothing else to the ready line or
\* the bus, and leave the cached status as it was.
C5_NotReadyNoAccess ==
  ( /\ call.op \in ReadyOps
    /\ trace # <<>>
    /\ trace[1] = EvPoll(FALSE) )
  =>
    /\ Idle
    /\ ret = Err("NotReady")
    /\ Len(trace) = 1
    /\ status = call.status0

\* C5, witness: read has returned NotReady.
C5_Witness ==
  /\ Idle
  /\ call.op = "read"
  /\ call.metric = "METRIC_COMBINED_ALL"
  /\ ret = Err("NotReady")
  /\ trace = <<EvPoll(FALSE)>>


\* C6: every block transfer that read performs for a metric, each of the five
\* of the all-domains aggregate included, happens while the ready line is
\* asserted, however the device deasserts and reasserts the line meanwhile.
C6_TransfersWhileReady ==
  [][(At("read", "transfer") /\ trace' # trace) => ready]_vars

\* A call of next() on an iterator that has yielded an Err item before.
AfterErrItem == call.op = "next" /\ call.errs0 >= 1

\* C7: an iterator of either strategy yields at most one Err item; the step
\* that fails yields it, whatever the failure is; every next() after it returns
\* None without an access to the ready line or the bus, so that no Ok item
\* follows an Err item.
C7_OneErrThenNone ==
  /\ iter.errs <= 1
  /\ AfterErrItem => trace = <<>>
  /\ (Idle /\ AfterErrItem) => ret = IterNone
  /\ (Idle /\ iter.kind # "none" /\ call.op = "next" /\ call.errs0 = 0) =>
       /\ ret.kind \in {"Ok", "Err"}
       /\ Failures(trace) # <<>> => ret.kind = "Err"
       /\ ret.kind = "Err" <=> iter.errs = 1

\* C7, witness: the read of a Cycle-strategy step failed on the bus, next()
\* yielded the Err item, and the next() after it has returned None.
C7_Witness ==
  /\ Idle
  /\ iter.kind = "CycleReadIterator"
  /\ AfterErrItem
  /\ iter.errs = 1
  /\ ret = IterNone


\* The mode-change and reset commands the call has written to the device.
CommandsWritten(tr) ==
  SelectSeq(tr, LAMBDA e : e[1] = "w" /\ e[2] \in {CMD_STANDBY_MODE, CMD_CYCLE_MODE, CMD_RESET})

\* C8: whenever a set_mode_timeout or reset that wrote a mode-change or reset
\* command has returned, the cached status is the one read from the device
\* after the last command: the cached mode is the mode the device is in.
C8_CacheRefreshed ==
  ( /\ Idle
    /\ call.op \in {"set_mode_timeout", "reset"}
    /\ CommandsWritten(trace) # <<>> )
  =>
    /\ status.some
    /\ status.st.mode = DeviceMode(dev)


\* What a reset that finds the ready line asserted does, in order: the poll of
\* ensure_ready, the write of 0xE2, the sleep of 6 ms, the poll that ends the
\* wait, the status read.
ResetTrace ==
  <<EvPoll(TRUE), EvWrite(CMD_RESET, 0), EvSleep(SLEEP_WRITE_MS), EvPoll(TRUE), <<"status", 0, 0>>>>

\* A trace with the registers and the mode of each status read left out.
Steps(tr) ==
  [i \in 1..Len(tr) |-> IF tr[i][1] = "status" THEN <<"status", 0, 0>> ELSE tr[i]]

\* A reset that found the ready line asserted.
ResetWhileReady == call.op = "reset" /\ trace # <<>> /\ trace[1] = EvPoll(TRUE)

\* C9: reset, called while the ready line is asserted, writes 0xE2, sleeps
\* 6 ms, waits without a timeout for the ready line, reads the status, stores
\* it as the cached status and returns it, in this order, and attempts no
\* other bus write.
C9_ResetOrder ==
  ResetWhileReady =>
    /\ IsPrefix(Steps(Succeeded(trace)), ResetTrace)
    /\ \A i \in 1..Len(Writes(trace)) : Writes(trace)[i][2] = CMD_RESET
    /\ Len(Writes(trace)) <= 1
    /\ (~Idle /\ InWait) => ~Top.tmo.some
    /\ Idle => ret.err # "ReadyTimeoutExceeded"
    /\ (Idle /\ ret.kind = "Ok") =>
         /\ Steps(trace) = ResetTrace
         /\ ret.st = DeviceStatusRead(dev)
         /\ status = Some(ret.st)
    /\ (Idle /\ ret.kind # "Ok") => Steps(trace) # ResetTrace

\* C9, witness: a reset of a device in cycle mode has returned the status that
\* is now cached.
C9_Witness ==
  /\ Idle
  /\ ResetWhileReady
  /\ call.status0.st.mode.tag = "Cycle"
  /\ ret.kind = "Ok"
  /\ status = Some(ret.st)
  /\ Steps(trace) = ResetTrace

\* A wait_for_ready_timeout or wait_for_not_ready_timeout returns in this step.
WaitReturns == InWait /\ stack' = Tail(stack)

\* C10: wait_for_ready_timeout returns Ok only from a poll that read the ready
\* line asserted; a poll that reads it asserted returns at once, without a
\* sleep and whatever the timeout and the elapsed time are; it returns
\* ReadyTimeoutExceeded only with a timeout set, the elapsed time greater than
\* it, and the line read deasserted.  wait_for_not_ready_timeout does the same
\* with the level inverted.
C10_WaitReturns ==
  [][ /\ (WaitReturns /\ ret'.kind = "Ok") =>
           /\ Top.pc = "poll"
           /\ ready = (Top.fn = "wait_for_ready_timeout")
           /\ trace' = Append(trace, EvPoll(ready))
      /\ (WaitReturns /\ ret'.err = "ReadyTimeoutExceeded") =>
           /\ Top.tmo.some
           /\ Top.el > Top.tmo.t
           /\ ready # (Top.fn = "wait_for_ready_timeout")
      /\ (InWait /\ Top.pc = "poll" /\ ready = (Top.fn = "wait_for_ready_timeout")) =>
           /\ WaitReturns => ret' \in {OkUnit, Err("GPIOError")}
           /\ ~WaitReturns => (stack'[1].pc = "poll" /\ stack'[1].polls = Top.polls)
    ]_vars

\* C10, witness: wait_for_ready_timeout with a timeout of zero has returned Ok
\* from its first poll, which read the line asserted.
C10_Witness ==
  /\ Idle
  /\ call.op = "wait_for_ready_timeout"
  /\ call.tmo = SomeTimeout(0)
  /\ ret = OkUnit
  /\ trace = <<EvPoll(TRUE)>>


\* A wait with a timeout is running.
TimedWaitPending ==
  /\ ~Idle
  /\ call.op \in {"wait_for_ready_timeout", "wait_for_not_ready_timeout"}
  /\ call.tmo.some

\* A wait_for_ready without a timeout is running.
UntimedReadyWaitPending ==
  /\ ~Idle
  /\ call.op = "wait_for_ready_timeout"
  /\ ~call.tmo.some

\* C11: a wait_for_ready or wait_for_not_ready with a timeout always returns
\* in the end, each sleep of the loop advancing the time; a wait_for_ready
\* without a timeout returns in the end if the ready line stays asserted from
\* some moment on, and a return of it is Ok from a poll that read the line
\* asserted or is the GPIO error of a poll: it does not return while the line
\* is deasserted and the polls succeed.
C11_WaitsTerminate ==
  /\ TimedWaitPending ~> Idle
  /\ <>[]ready => []<>(~UntimedReadyWaitPending)
  /\ [][(UntimedReadyWaitPending /\ Idle') =>
          \/ ready /\ ret' = OkUnit
          \/ ret' = Err("GPIOError")]_vars

\* C11, witness: a wait_for_ready with the longest timeout has slept through
\* it, the line deasserted, and has returned ReadyTimeoutExceeded.
C11_Witness ==
  /\ Idle
  /\ call.op = "wait_for_ready_timeout"
  /\ call.tmo = SomeTimeout(MaxTimeout)
  /\ ret = Err("ReadyTimeoutExceeded")
  /\ ~ready


\* The error a failed access is reported as: a failed read of the ready line as
\* GPIOError, a failed bus read or write as I2CError.
TransportError(e) == IF e[1] = "poll_fail" THEN Err("GPIOError") ELSE Err("I2CError")

\* C12: a bus read or write or a read of the ready line that fails during a
\* Session operation is the last access of the call, attempted once, and the
\* call returns its error: no retry and no further access follows it.
C12_FailurePropagates ==
  \A i \in 1..Len(trace) :
    Failures(<<trace[i]>>) # <<>> =>
      /\ i = Len(trace)
      /\ ret = TransportError(trace[i])

\* C12, witness: in a set_mode_timeout the write of the cycle command 0xE4
\* failed, after the write of the period succeeded, and the call has returned
\* the bus error.
C12_Witness ==
  /\ Idle
  /\ call.op = "set_mode_timeout"
  /\ trace # <<>>
  /\ trace[Len(trace)] = EvWriteFail(CMD_CYCLE_MODE, 0)
  /\ ret = Err("I2CError")


\* The worker thread runs and a stop signal is in the command channel.
StopPending == bg.phase = "running" /\ bg.stop > 0

\* C13: if every iterator step of the worker returns, a stop signal the caller
\* sent leads to the end of the worker thread; however the loop ended (stop
\* seen, error, result channel closed), the thread holds no call and no
\* iterator, join returns the Session, and the caller that has it back can
\* call read_status, set_mode_timeout and read.
C13_StopThenJoin ==
  /\ []<>Idle => (StopPending ~> bg.phase # "running")
  /\ [](bg.phase = "exited" =>
          /\ Idle
          /\ iter = NoIter
          /\ bg.exit \in {"stop", "error", "closed"}
          /\ ENABLED Join)
  /\ []((bg.phase = "joined" /\ Idle) =>
          /\ status.some
          /\ ENABLED CallReadStatus
          /\ ENABLED CallSetMode
          /\ ENABLED CallRead)

\* C13, witness: the worker saw the stop signal, the caller joined it and a
\* read_status on the Session that join returned has succeeded.
C13_Witness ==
  /\ bg.phase = "joined"
  /\ bg.exit = "stop"
  /\ Idle
  /\ call.op = "read_status"
  /\ ret.kind = "Ok"
  /\ status = Some(ret.st)


\* The caller can start an operation on the Session.
CallerCanOperate ==
  \/ ENABLED CallReadStatus
  \/ ENABLED CallSetMode
  \/ ENABLED CallCommand
  \/ ENABLED CallExecuteMeasurement
  \/ ENABLED CallRead
  \/ ENABLED CallWait
  \/ ENABLED NewIterator
  \/ ENABLED CallNext

\* C14: from async_cycle_read_timeout until join has returned the caller can
\* start no operation on the Session and none of its operations is in
\* progress: the only calls on the Session are the worker's next(); and the
\* worker makes no call once the caller has the Session back.
C14_SingleOwner ==
  /\ bg.phase \in {"running", "exited"} =>
       /\ call.op \in {"async_cycle_read_timeout", "next"}
       /\ ~CallerCanOperate
  /\ ~Idle => IF call.op = "next" THEN bg.phase = "running" ELSE CallerOwns
  /\ CallerOwns => ~(ENABLED WorkerNext)

\* C14, witness: the worker is reading the metric, in a step of its iterator,
\* after the caller has sent the stop signal.
C14_Witness ==
  /\ bg.phase = "running"
  /\ bg.stop > 0
  /\ At("read", "transfer")
  /\ Top.n > 0


\* The items the worker has sent so far, in the order the caller gets them.
Delivered == bg.received \o bg.queue

\* C15: the items the caller receives, followed by the ones still in the
\* result channel, are the first items the worker's iterator yielded, in the
\* order it yielded them: none is missing in between, duplicated, reordered or
\* made up.
C15_ChannelOrder ==
  /\ IsPrefix(Delivered, bg.produced)
  /\ \A i \in 1..Len(bg.produced) : bg.produced[i][1] = i

\* C15, witness: the caller has received two items, the second one while the
\* worker was in a later step.
C15_Witness ==
  /\ Len(bg.received) = 2
  /\ bg.received[1][2] = "Ok"
  /\ bg.received[2][2] = "Ok"
  /\ bg.phase = "running"


\* The last item the worker's iterator yielded is an Err.
ErrorOccurred ==
  /\ bg.produced # <<>>
  /\ bg.produced[Len(bg.produced)][2] = "Err"

\* C16: an error of the worker's iterator is sent on the result channel, and
\* the worker then ends: once the thread has ended after an Err item, with the
\* caller still holding the receiver, that Err is the last item sent; the
\* worker starts no step after an Err item; an Err item on the channel is the
\* last item on it.
C16_ErrSentThenExit ==
  /\ (ErrorOccurred /\ bg.phase \in {"exited", "joined"} /\ bg.rx) =>
       /\ Delivered # <<>>
       /\ Delivered[Len(Delivered)] = bg.produced[Len(bg.produced)]
  /\ (ErrorOccurred /\ bg.phase = "running") => bg.pc = "send"
  /\ \A i \in 1..Len(Delivered) : Delivered[i][2] = "Err" => i = Len(Delivered)


\* The worker's send of this step fails: the caller has dropped the receiver.
SendFails == Worker("send") /\ ~bg.rx /\ bg'.pc # "send"

\* C17: a send that finds the receiver dropped ends the worker's loop: no
\* iterator step follows it, nothing is put on the channel, and the thread
\* returns the Session, which join gives back to the caller.
C17_ClosedChannelExit ==
  /\ [][SendFails =>
          /\ bg'.phase = "exited"
          /\ bg'.exit \in {"closed", "error"}
          /\ bg'.queue = bg.queue
          /\ iter' = NoIter
          /\ Idle']_vars
  /\ [](bg.exit = "closed" =>
          /\ ~bg.rx
          /\ bg.phase \in {"exited", "joined"}
          /\ Len(Delivered) < Len(bg.produced)
          /\ bg.phase = "exited" => (call.op = "next" /\ ENABLED Join)
          /\ (bg.phase = "joined" /\ Idle) => (ENABLED CallReadStatus /\ ENABLED CallRead))

\* C17, witness: the caller received the first item and dropped the receiver;
\* the send of the second item failed, the worker ended, and after the join a
\* read on the Session has succeeded.
C17_Witness ==
  /\ bg.phase = "joined"
  /\ bg.exit = "closed"
  /\ Len(bg.received) = 1
  /\ Len(bg.produced) = 2
  /\ Idle
  /\ call.op = "read"
  /\ ret.kind = "Ok"


\* What a successful read of the metric does: ensure_ready finds the line
\* asserted, then the block transfers.
ReadEvents(metric) ==
  <<EvPoll(TRUE)>> \o
  [i \in 1..Len(MetricTransfers(metric)) |-> EvRead(MetricTransfers(metric)[i])]

\* The place of the last status read in a trace, 0 if there is none.
LastStatus(tr) ==
  IF StatusReads(tr) = <<>> THEN 0
  ELSE CHOOSE i \in 1..Len(tr) :
         /\ tr[i][1] = "status"
         /\ \A j \in (i + 1)..Len(tr) : tr[j][1] # "status"

\* A next() of the Cycle strategy, the iterator still there.
CycleStep == call.op = "next" /\ iter.kind = "CycleReadIterator"

\* C18: the first next() of the Cycle strategy runs set_mode_timeout to
\* Cycle(period) and, when that succeeds, reads the metric at once, with no
\* wait for a deasserted line, and clears `first`; a later next() attempts no
\* bus write and no status read, and when it yields Ok it has read the line
\* deasserted, then asserted, and then read the metric.
C18_CycleStepProtocol ==
  /\ (CycleStep /\ ~call.first0 /\ call.errs0 = 0) =>
       /\ Writes(trace) = <<>>
       /\ LastStatus(trace) = 0
       /\ (Idle /\ ret.kind = "Ok") =>
            trace = <<EvPoll(FALSE), EvPoll(TRUE)>> \o ReadEvents(call.metric)
  /\ (CycleStep /\ call.first0 /\ Idle) =>
       /\ ret.kind = "Ok" =>
            /\ ~iter.first
            /\ LastStatus(trace) > 0
            /\ trace[LastStatus(trace)][3] = ModeCode(Cycle(iter.period))
            /\ SubSeq(trace, LastStatus(trace) + 1, Len(trace)) = ReadEvents(call.metric)
       /\ ret.kind = "Err" => iter.error
  /\ (CycleStep /\ call.first0 /\ trace # <<>>) => trace[1][1] \in {"poll", "poll_fail"}

\* C18, witness: a later step of the Cycle strategy has yielded Ok.
C18_Witness ==
  /\ CycleStep
  /\ ~call.first0
  /\ Idle
  /\ ret.kind = "Ok"
  /\ trace = <<EvPoll(FALSE), EvPoll(TRUE)>> \o ReadEvents("METRIC_COMBINED_ALL")


\* A next() of the Interval strategy that has yielded an Ok item.
IntervalOk ==
  /\ call.op = "next"
  /\ iter.kind = "MetricReadIterator"
  /\ Idle
  /\ ret.kind = "Ok"

\* What a successful step of the Interval strategy does when it reads `e` as
\* the time since last_instant and then sleeps d (not at all when d = 0): the
\* ready wait, the sleep, the on-demand trigger 0xE1 with its settle time, the
\* second ready wait, the read of the metric.
IntervalTrace(e, began, d, metric) ==
  <<EvPoll(TRUE), EvElapsed(e, began)>>
  \o (IF d > 0 THEN <<EvSleepInterval(d)>> ELSE <<>>)
  \o <<EvPoll(TRUE), EvWrite(CMD_ON_DEMAND_MEASURE, 0), EvSleep(SLEEP_WRITE_MS), EvPoll(TRUE)>>
  \o ReadEvents(metric)

\* C19, as stated: every successful next() of the Interval strategy does, in
\* order, a ready wait, a sleep of max(0, interval - time since the step before
\* began), the write of 0xE1, a second ready wait and the read of the metric.
C19_IntervalStepFromBegin ==
  IntervalOk =>
    \E e \in 0..MaxInterval, began \in 0..(2 * MaxInterval) :
      trace = IntervalTrace(e, began, IF began < iter.interval THEN iter.interval - began ELSE 0,
                            call.metric)

\* C19, amended: every successful next() of the Interval strategy does, in
\* order, a ready wait, a sleep of max(0, interval - time since last_instant)
\* (last_instant being the end of the sleep of the step before, or the making
\* of the iterator), the write of 0xE1, a second ready wait and the read of
\* the metric: one write of 0xE1 and one read of the metric for each Ok item.
C19_IntervalStepProtocol ==
  IntervalOk =>
    /\ \E e \in 0..MaxInterval, began \in 0..(2 * MaxInterval) :
         trace = IntervalTrace(e, began, IF e < iter.interval THEN iter.interval - e ELSE 0,
                               call.metric)
    /\ Writes(trace) = <<EvWrite(CMD_ON_DEMAND_MEASURE, 0)>>
    /\ Len(SelectSeq(trace, LAMBDA ev : ev[1] = "read")) = Len(MetricTransfers(call.metric))

\* C19, witness: a step of the Interval strategy has yielded Ok after a sleep,
\* the step before having slept too.
C19_Witness ==
  /\ IntervalOk
  /\ iter.interval = 1
  /\ trace = IntervalTrace(0, 1, 1, "METRIC_COMBINED_ALL")


\* The mode-change commands the call has written, in order.
ModeCommands(tr) ==
  SelectSeq(tr, LAMBDA e : e[1] = "w" /\ e[2] \in {CMD_STANDBY_MODE, CMD_CYCLE_MODE})

\* The mode the first status read of the call reported.
ReportedMode(tr) == CHOOSE m \in Modes : ModeCode(m) = Reported(tr)

\* The successful bus writes of a trace, the sleeps after them left out.
WritesDone(tr) == SelectSeq(tr, LAMBDA e : e[1] = "w")

\* The bus writes of set_mode_naive(m), as events.
NaiveEvents(m) ==
  [i \in 1..Len(NaiveWrites(m)) |-> EvWrite(NaiveWrites(m)[i][1], NaiveWrites(m)[i][2])]

\* C20: is_switch_allowed(to, from) is true exactly when one of the two modes
\* is Standby and the other a Cycle; a set_mode_timeout that succeeds has
\* written the commands of one direct change exactly when the switch from the
\* reported mode to the target is allowed, the commands of a change to Standby
\* and then of one to the target when both are Cycle modes of different
\* periods, and nothing when they are the same.
C20_DirectSwitches ==
  /\ \A to \in Modes, from \in Modes :
       is_switch_allowed(to, from) <=>
         \/ to.tag = "Standby" /\ from.tag = "Cycle"
         \/ to.tag = "Cycle" /\ from.tag = "Standby"
  /\ (Idle /\ call.op = "set_mode_timeout" /\ ret.kind = "Ok") =>
       LET from == ReportedMode(trace)
           to == call.mode
       IN /\ is_switch_allowed(to, from) <=> Len(ModeCommands(trace)) = 1
          /\ is_switch_allowed(to, from) => WritesDone(trace) = NaiveEvents(to)
          /\ (~is_switch_allowed(to, from) /\ to # from) =>
               WritesDone(trace) = NaiveEvents(Standby) \o NaiveEvents(to)
          /\ to = from => WritesDone(trace) = <<>>

\* C20, witness: set_mode_timeout has taken a device that reported Standby to
\* Cycle(Period2) with one direct change.
C20_Witness ==
  /\ Idle
  /\ call.op = "set_mode_timeout"
  /\ call.mode = Cycle("Period2")
  /\ ret.kind = "Ok"
  /\ ReportedMode(trace) = Standby
  /\ WritesDone(trace) = NaiveEvents(Cycle("Period2"))


\* C21: to_value maps the three CyclePeriod values onto exactly {0, 1, 2};
\* from_value of the byte to_value returned for p is Ok(p); from_value of a
\* byte of 3..255 is Err(InvalidCyclePeriod(byte)).
C21_CyclePeriodRoundTrip ==
  /\ {to_value(p) : p \in CyclePeriods} = {0, 1, 2}
  /\ (dec.fn = "to_value" /\ dec.pc = "done") => dec.out = Got(to_value(dec.period), <<>>)
  /\ (dec.fn = "from_value" /\ dec.pc = "done" /\ dec.period \in CyclePeriods) =>
       /\ dec.input = <<to_value(dec.period)>>
       /\ dec.out.ok
       /\ dec.out.v = dec.period
  /\ (dec.fn = "from_value" /\ dec.pc = "done" /\ dec.input[1] \in 3..255) =>
       /\ ~dec.out.ok
       /\ dec.out.err = "InvalidCyclePeriod"
       /\ dec.out.v = dec.input[1]

\* C21, witness: from_value has returned Period2 for the byte to_value(Period2).
C21_Witness ==
  /\ dec.fn = "from_value"
  /\ dec.pc = "done"
  /\ dec.period = "Period2"
  /\ dec.input = <<2>>
  /\ dec.out = Got("Period2", <<>>)


\* The number of bytes the decoding moved the cursor by.
Consumed == Len(dec.input) - Len(dec.out.rest)

\* A from_bytes of a unit other than the all-domains aggregate has returned Ok.
Decoded(units) ==
  /\ dec.fn = "from_bytes"
  /\ dec.pc = "done"
  /\ dec.unit \in units
  /\ dec.out.ok

\* C22: a from_bytes that returns Ok has moved the cursor of its buffer by
\* exactly the unit's len(), for every plain unit and every composite.
C22_DecodeConsumesLen ==
  Decoded(PlainUnits \cup CompositeUnits) => Consumed = len(dec.unit)


\* A from_bytes of the one-byte unit `unit` has returned.
DecodedByte(unit) ==
  /\ dec.fn = "from_bytes"
  /\ dec.pc = "done"
  /\ dec.unit = unit

\* The decoding accepted its byte exactly when it is one of `known`, and
\* failed with the error `e` that carries the byte otherwise.
Closed(known, e) ==
  IF dec.input[1] \in known
    THEN dec.out.ok
    ELSE ~dec.out.ok /\ dec.out.err = e /\ dec.out.v = dec.input[1]

\* C23: over every byte 0..255, AQI accuracy accepts exactly 0..3 and fails
\* with InvalidAQIAccuracy otherwise, sound-measurement stability accepts
\* exactly 0 and 1 and fails otherwise, particle validity accepts exactly 0
\* and 1 and fails with InvalidParticleDataValidity otherwise.
C23_EnumerantsClosed ==
  /\ DecodedByte("UnitAQIAccuracy") => Closed(0..3, "InvalidAQIAccuracy")
  /\ DecodedByte("UnitSoundMeasurementStability") =>
       (dec.out.ok <=> dec.input[1] \in {0, 1})
  /\ DecodedByte("UnitParticleDataValidity") =>
       Closed({0, 1}, "InvalidParticleDataValidity")


\* The magnitude of an integer.
Abs(n) == IF n < 0 THEN 0 - n ELSE n

\* The f32 `value` is exactly t / 10.
ExactTenths(value, t) ==
  IF t = 0
    THEN value.mant = 0
    ELSE /\ value.neg = (t < 0)
         /\ 10 * value.mant = Abs(t) * Pow2(value.scale)

\* The f32 `value` is within half a unit of its last place of t / 10.
NearestTenths(value, t) ==
  IF t = 0
    THEN value.mant = 0
    ELSE /\ value.neg = (t < 0)
         /\ Abs(10 * value.mant - Abs(t) * Pow2(value.scale)) <= 5

\* The byte b as an i8.
Signed(b) == IF b >= 128 THEN b - 256 ELSE b

\* The units of a one-byte integer part, of a 16-bit integer part.
FixedUnits8 ==
  {"UnitDegreesCelsius", "UnitRelativeHumidity", "UnitAWeightedSPL", "UnitPercent"}
FixedUnits16 ==
  {"UnitAirQualityIndex", "UnitPartsPerMillion", "UnitIlluminance", "UnitMillipascal"}

\* The integer part and the fraction byte of the buffer of a fixed-point unit.
IntPart(unit, input) ==
  CASE unit = "UnitDegreesCelsius" -> Signed(input[1])
    [] unit \in FixedUnits8 \ {"UnitDegreesCelsius"} -> input[1]
    [] unit \in FixedUnits16 -> input[1] + 256 * input[2]
FracPart(unit, input) == IF unit \in FixedUnits8 THEN input[2] ELSE input[3]

\* The f32 `value` is within 2^-16 of t / 10 (|t| < 2560).
CloseTenths(value, t) ==
  IF t = 0
    THEN value.mant = 0
    ELSE /\ value.neg = (t < 0)
         /\ value.scale >= 16
         /\ Abs(10 * value.mant - Abs(t) * Pow2(value.scale)) <= 10 * Pow2(value.scale - 16)

\* The decoded values of the fixed-point units stand in the relation
\* Rel(value, integer_part, f) to their bytes, for the fraction bytes 0..99.
FixedPoint(Rel(_, _, _)) ==
  /\ (Decoded(FixedUnits8 \cup FixedUnits16) /\ FracPart(dec.unit, dec.input) <= 99) =>
       Rel(dec.out.v, IntPart(dec.unit, dec.input), FracPart(dec.unit, dec.input))
  /\ Decoded({"UnitSPLFrequencyBands"}) =>
       \A i \in 1..6 : Rel(dec.out.v[i], dec.input[i], dec.input[6 + i])

\* C24 as stated: every two-part fixed-point decode yields exactly
\* integer_part + f / 10, that is 10 * value = 10 * integer_part + f, for
\* every fraction byte f of 0..99.
C24_FixedPointExact ==
  FixedPoint(LAMBDA value, int_part, f : ExactTenths(value, 10 * int_part + f))

\* C24, amended: for every fraction byte f of 0..99, a two-part fixed-point
\* decode yields exactly integer_part + f / 10 when f is a multiple of 5, the
\* f32 within half a unit of its last place of that number when the integer
\* part is not negative, and an f32 within 2^-16 of it when the integer part
\* (of a temperature) is negative.
C24_FixedPointNearest ==
  FixedPoint(LAMBDA value, int_part, f :
               /\ f % 5 = 0 => ExactTenths(value, 10 * int_part + f)
               /\ int_part >= 0 => NearestTenths(value, 10 * int_part + f)
               /\ int_part < 0 => CloseTenths(value, 10 * int_part + f))

\* C24, witness: the humidity bytes (21, 1) were decoded, to the f32 nearest
\* to 21.1, which is not 21.1.
C24_Witness ==
  /\ Decoded({"UnitRelativeHumidity"})
  /\ dec.input = <<21, 1>>
  /\ dec.out.v = [neg |-> FALSE, mant |-> 11062477, scale |-> 19]
  /\ NearestTenths(dec.out.v, 211)
  /\ ~ExactTenths(dec.out.v, 211)

\* The little-endian u32 of the four bytes of `input` from the 0-based offset.
WordAt(input, offset) ==
  U32(input[offset + 3] + 256 * input[offset + 4], input[offset + 1] + 256 * input[offset + 2])

\* The block that encodes 21.5 C, 101325 Pa, 45.2 %RH, 123456 ohm.
AirBlock == <<21, 5, 205, 139, 1, 0, 45, 2, 64, 226, 1, 0>>

DocumentedWrites(op, from, to) ==
  CASE op = "reset" -> << <<"w", 226, 0>> >>
    [] op = "clear_light_interrupt" -> << <<"w", 230, 0>> >>
    [] op = "clear_sound_interrupt" -> << <<"w", 231, 0>> >>
    [] op = "execute_measurement" -> << <<"w", 225, 0>> >>
    [] op = "set_mode_timeout" /\ to.tag = "Standby" /\ from.tag = "Cycle" ->
         << <<"w", 229, 0>> >>
    [] op = "set_mode_timeout" /\ to.tag = "Cycle" /\ from.tag = "Standby" ->
         << <<"w", 137, to_value(to.period)>>, <<"w", 228, 0>> >>

\* The call is one of the single commands, or a set_mode_timeout that enters
\* Standby from a reported Cycle mode or a Cycle mode from a reported Standby.
DocumentedCommand ==
  \/ call.op \in {"reset", "clear_light_interrupt", "clear_sound_interrupt",
                  "execute_measurement"}
  \/ /\ call.op = "set_mode_timeout"
     /\ StatusReads(trace) # <<>>
     /\ (call.mode.tag = "Standby") # (ReportedMode(trace).tag = "Standby")

\* C26: a command that returns Ok has attempted exactly the bus writes of its
\* documented bytes, in order, the period register before the enter-cycle
\* command, and the device received them; while it runs, and when it fails,
\* what it wrote is a prefix of them.
C26_CommandBytes ==
  DocumentedCommand =>
    LET from == IF call.op = "set_mode_timeout" THEN ReportedMode(trace) ELSE Standby
        bytes == DocumentedWrites(call.op, from, call.mode)
    IN /\ IsPrefix(WritesDone(trace), bytes)
       /\ (Idle /\ ret.kind = "Ok") =>
            /\ Writes(trace) = bytes
            /\ call.op = "set_mode_timeout" => DeviceMode(dev) = call.mode

\* C26, witness: a set_mode_timeout that entered Cycle(Period1) from Standby
\* has returned Ok, having written 0x89 := 1 and then 0xE4.
C26_Witness ==
  /\ Idle
  /\ call.op = "set_mode_timeout"
  /\ call.mode = Cycle("Period1")
  /\ ret.kind = "Ok"
  /\ Writes(trace) = << <<"w", 137, 1>>, <<"w", 228, 0>> >>


\* The block reads of a trace, failed ones included.
BlockReads(tr) == SelectSeq(tr, LAMBDA e : e[1] \in {"read", "read_fail"})

\* The registers of the five composite blocks in the order air, air quality,
\* light, sound, particle.
AggregateOrder == <<16, 17, 18, 19, 20>>

\* UnitCombinedData::from_bytes fails on every buffer: the empty one, every
\* single byte, and whole air blocks.
AggregateDecodeFails ==
  \A input \in Inputs("UnitCombinedData") \cup Inputs("UnitCombinedAirData") :
    LET r == from_bytes("UnitCombinedData", input)
    IN ~r.ok /\ r.err = "InvalidCombinedDataFromBytes" /\ r.rest = input

\* C27: a read of the all-domains aggregate issues block reads of the
\* registers 0x10, 0x11, 0x12, 0x13, 0x14 in that order, each at most once; a
\* read that fails, on the bus or in its decoding, is the last event of the
\* call and the call returns its error; the call returns Ok exactly after five
\* reads that succeeded; and UnitCombinedData::from_bytes returns
\* InvalidCombinedDataFromBytes for every buffer, consuming nothing.
C27_AggregateRead ==
  /\ AggregateDecodeFails
  /\ (call.op = "read" /\ call.metric = "METRIC_COMBINED_ALL") =>
       LET rs == BlockReads(trace)
       IN /\ Len(rs) <= 5
          /\ \A i \in 1..Len(rs) : rs[i][2] = AggregateOrder[i]
          /\ \A i \in 1..(Len(rs) - 1) : rs[i][1] = "read"
          /\ rs # <<>> => (rs[Len(rs)] = trace[Len(trace)] \/ ~Idle)
          /\ (rs # <<>> /\ rs[Len(rs)][1] = "read_fail") =>
               /\ Idle
               /\ ret = Err("I2CError")
               /\ trace[Len(trace)] = rs[Len(rs)]
          /\ (Idle /\ ret.kind = "Err" /\ rs # <<>>) =>
               /\ trace[Len(trace)] = rs[Len(rs)]
               /\ ret = Err("I2CError") <=> rs[Len(rs)][1] = "read_fail"
          /\ (Idle /\ ret.kind = "Ok") <=>
               (Len(rs) = 5 /\ \A i \in 1..5 : rs[i][1] = "read" /\ ret.kind # "Err")

\* C27, witness: the aggregate read was aborted by the failure of its third
\* block read, after the air and the air-quality blocks.
C27_Witness ==
  /\ Idle
  /\ call.op = "read"
  /\ call.metric = "METRIC_COMBINED_ALL"
  /\ ret = Err("I2CError")
  /\ BlockReads(trace) = << <<"read", 16, 12>>, <<"read", 17, 10>>, <<"read_fail", 18, 5>> >>


\* C28: whenever execute_measurement has attempted its write of 0xE1 the
\* device is in Standby, and when it is about to write, the cached status it
\* passed its gate on is the mode the device is in; whatever calls came
\* before, failed ones included.
C28_TriggerOnlyInStandby ==
  /\ (call.op = "execute_measurement" /\ Writes(trace) # <<>>) =>
       DeviceMode(dev) = Standby
  /\ (~Idle /\ Top.fn = "execute_measurement" /\ Top.pc = "write") =>
       /\ status.some
       /\ status.st.mode = DeviceMode(dev)


\* The step attempts a bus write: it adds a write event to the trace.
WriteStep ==
  /\ Len(trace') > Len(trace)
  /\ trace'[Len(trace) + 1][1] \in {"w", "w_fail"}

\* C29: every bus write the Session attempts comes at least 6 ms of sleep
\* after the bus write the device received before it, in every operation.
C29_SleepBetweenWrites == [][WriteStep => since >= 6]_vars

\* The mode a mode-change command of set_mode_timeout(target) enters: Standby
\* for 0xE5, the target for 0xE4.
ModeEntered(cmd, target) == IF cmd = CMD_STANDBY_MODE THEN Standby ELSE target

\* C30: in every set_mode_timeout, a mode-change command (0xE5, 0xE4) that is
\* followed by a poll of the ready line is followed at once by a sleep of at
\* least ready_duration of the mode entered: 11 ms for Standby, 600 ms for
\* Cycle(Period0), 2600 ms for Cycle(Period1) and Cycle(Period2).
C30_ReadyLatency ==
  call.op = "set_mode_timeout" =>
    \A i \in 1..Len(trace) : \A j \in (i + 1)..Len(trace) :
      (/\ trace[i][1] = "w"
       /\ trace[i][2] \in {CMD_STANDBY_MODE, CMD_CYCLE_MODE}
       /\ trace[j][1] \in {"poll", "poll_fail"}) =>
        /\ trace[i + 1][1] = "sleep"
        /\ trace[i + 1][2] >= ready_duration(ModeEntered(trace[i][2], call.mode))


\* C31: in a wait loop no two polls of the ready line follow one another
\* without a sleep of READY_POLL_INTERVAL between them, with a timeout and
\* without one: the count of the polls since the loop last slept (or began)
\* stays below two.
C31_PollCadence == InWait => Top.polls < 2


\* C32: a read_status that returns Ok has read exactly seven registers,
\* whatever the device holds, and has not looked at the ready line: its trace
\* is the one status read, of seven registers.
C32_SevenRegisterReads ==
  (call.op = "read_status" /\ Idle /\ ret.kind = "Ok") =>
    /\ Len(trace) = 1
    /\ trace[1][1] = "status"
    /\ trace[1][2] = 7


\* The registers DeviceStatus::read reads when the device returns regs, as
\* places of regs, and the bytes each register is documented to hold.
StatusRegsRead(regs) ==
  {1, 2, 5, 7}
  \cup (IF regs[2] # 0 THEN {3, 4} ELSE {})
  \cup (IF regs[5] # 0 THEN {6} ELSE {})
  \cup (IF regs[7] = 1 THEN {8} ELSE {})
KnownBytes(r) == IF r \in {1, 8} THEN 0..2 ELSE 0..1

\* C33: the decoding of the status returns Ok only when every register it
\* read held a byte of the register's known set; a byte outside it gives a
\* typed error that carries the byte.
C33_NoSilentDefault ==
  (dec.fn = "status_read" /\ dec.pc = "done") =>
    LET odd == {r \in StatusRegsRead(dec.input) : dec.input[r] \notin KnownBytes(r)}
    IN /\ dec.out.ok => odd = {}
       /\ odd # {} =>
            /\ dec.out.err \in {"InvalidParticleSensorMode", "InvalidOperationalMode",
                                "InvalidCyclePeriod"}
            /\ \E r \in odd : dec.out.v = dec.input[r]


\* The sub-fields of each composite block in the order of its struct: the
\* field and the unit it is decoded as.
SubFields(unit) ==
  CASE unit = "UnitCombinedAirData" ->
         << <<"temperature", "UnitDegreesCelsius">>, <<"pressure", "UnitPascals">>,
            <<"humidity", "UnitRelativeHumidity">>,
            <<"gas_sensor_resistance", "UnitResistance">> >>
    [] unit = "UnitCombinedAirQualityData" ->
         << <<"aqi", "UnitAirQualityIndex">>, <<"estimated_co2", "UnitPartsPerMillion">>,
            <<"estimated_voc", "UnitPartsPerMillion">>, <<"aqi_accuracy", "UnitAQIAccuracy">> >>
    [] unit = "UnitCombinedLightData" ->
         << <<"illuminance", "UnitIlluminance">>, <<"white_level", "UnitWhiteLevel">> >>
    [] unit = "UnitCombinedSoundData" ->
         << <<"weighted_spl", "UnitAWeightedSPL">>, <<"spl_bands", "UnitSPLFrequencyBands">>,
            <<"peak_amplitude", "UnitMillipascal">>,
            <<"measurement_stability", "UnitSoundMeasurementStability">> >>
    [] unit = "UnitCombinedParticleData" ->
         << <<"duty_cycle", "UnitPercent">>,
            <<"concentration", "UnitRawParticleConcentration">>,
            <<"validity", "UnitParticleDataValidity">> >>

\* The sum of the declared lengths of the first k sub-fields of a composite.
RECURSIVE FieldOffset(_, _)
FieldOffset(unit, k) ==
  IF k = 0 THEN 0 ELSE FieldOffset(unit, k - 1) + len(SubFields(unit)[k][2])

\* The value of sub-field k decoded on its own from its place in the block.
FieldAlone(unit, k, block) ==
  from_bytes(SubFields(unit)[k][2],
             SubSeq(block, FieldOffset(unit, k - 1) + 1, FieldOffset(unit, k))).v

\* The declared length of every composite is the sum of its sub-fields'.
LengthsAddUp ==
  \A unit \in CompositeUnits : len(unit) = FieldOffset(unit, Len(SubFields(unit)))

\* C34: in a decoded composite block every sub-field has the value its unit
\* decodes from the bytes that start at the sum of the lengths of the
\* sub-fields before it, and the length of the composite is the sum of the
\* lengths of its sub-fields.
C34_FixedOffsets ==
  /\ LengthsAddUp
  /\ Decoded(CompositeUnits) =>
       \A k \in 1..Len(SubFields(dec.unit)) :
         dec.out.v[SubFields(dec.unit)[k][1]] = FieldAlone(dec.unit, k, dec.input)


\* C35: the cached status of a constructed Session is Some in every state; a
\* read_status that fails leaves the cached value as it was; and no call
\* returns StatusMissing.
C35_StatusAlwaysCached ==
  /\ status.some
  /\ (call.op = "read_status" /\ Idle /\ ret.kind = "Err") => status = call.status0
  /\ ret.err # "StatusMissing"

\* C35, witness: a read_status has failed on a Session whose cached status no
\* longer says what the device is in, and the cache is as it was before.
C35_Witness ==
  /\ Idle
  /\ call.op = "read_status"
  /\ ret.kind = "Err"
  /\ status.some
  /\ status = call.status0
  /\ status.st.mode # DeviceMode(dev)


\* A next() of the Interval strategy.
IntervalStep == call.op = "next" /\ iter.kind = "MetricReadIterator"

\* An Interval strategy's next() has returned; it began with no error yielded
\* before it and with a cached mode of Cycle(_).
IntervalOnCycleCache ==
  /\ IntervalStep
  /\ Idle
  /\ call.errs0 = 0
  /\ call.status0.st.mode.tag = "Cycle"

\* No step of the Interval strategy writes a mode-change command or the
\* period register, reads the status, or changes the cached status.
IntervalLeavesMode ==
  IntervalStep =>
    /\ \A i \in 1..Len(trace) : trace[i][1] \in {"w", "w_fail"} => trace[i][2] = 225
    /\ \A i \in 1..Len(trace) : trace[i][1] \notin {"status", "status_fail"}
    /\ status = call.status0

\* C36, as stated: the Interval strategy writes no mode-change command and
\* does not refresh the cached status, and its first next() on a cached mode
\* of Cycle(_) yields Err(InvalidMode) with Standby required, with no write,
\* and sets the iterator's error flag.
C36_IntervalOnCycleInvalidMode ==
  /\ IntervalLeavesMode
  /\ IntervalOnCycleCache =>
       /\ ret = ErrInvalidMode(status.st.mode, Standby)
       /\ Writes(trace) = <<>>
       /\ iter.error

\* C36, amended: the same, the first next() yielding Err(InvalidMode) when
\* its ready wait returned Ok and the error of that wait (ReadyTimeoutExceeded
\* or the GPIO error) when it did not.
C36_IntervalOnCycleErr ==
  /\ IntervalLeavesMode
  /\ IntervalOnCycleCache =>
       /\ \/ /\ ret = ErrInvalidMode(status.st.mode, Standby)
             /\ trace[1] = <<"poll", 1, 0>>
          \/ /\ ret = Err("ReadyTimeoutExceeded")
             /\ call.tmo.some
             /\ trace = <<>>
          \/ /\ ret = Err("GPIOError")
             /\ trace = <<EvPollFail>>
       /\ Writes(trace) = <<>>
       /\ iter.error

\* C36, witness: the first next() of an Interval strategy started on a cached
\* Cycle(Period1) has yielded InvalidMode, the device being in Standby.
C36_Witness ==
  /\ IntervalOnCycleCache
  /\ ret = ErrInvalidMode(Cycle("Period1"), Standby)
  /\ DeviceMode(dev) = Standby
  /\ iter.error


---------------------------------------------------------------------------
(* C37: the ways the background worker ends. *)

\* The worker's loop ends in this step.
WorkerEnds == bg.phase = "running" /\ bg'.phase = "exited"

\* C37: the worker ends only by taking a stop signal out of the command
\* channel, by an Err item of the Cycle strategy, or by a send to a result
\* channel whose receiver is gone; with the sender of the stop signal dropped
\* and nothing sent, or with the result channel never drained, the loop goes
\* on, and join() returns only after one of the three.
C37_WorkerTermination ==
  /\ [](bg.phase \in {"exited", "joined"} => bg.exit \in {"stop", "error", "closed"})
  /\ [][WorkerEnds =>
          \/ /\ bg'.exit = "stop"
             /\ bg.stop > 0
             /\ bg'.stop = bg.stop - 1
          \/ /\ bg'.exit = "error"
             /\ HeldItem(bg)[2] = "Err"
          \/ /\ bg'.exit = "closed"
             /\ HeldItem(bg)[2] = "Ok"
             /\ ~bg.rx]_vars

\* C37, witness: the loop is about to make another step, the sender of the
\* stop signal dropped with nothing sent and the result channel holding every
\* item, none taken.
C37_Witness ==
  /\ Worker("step")
  /\ ~bg.tx
  /\ bg.stop = 0
  /\ bg.rx
  /\ Len(bg.queue) = MaxItems - 1
  /\ Len(bg.queue) >= 1
  /\ bg.received = <<>>
  /\ \A i \in 1..Len(bg.queue) : bg.queue[i][2] = "Ok"


---------------------------------------------------------------------------
(* C38: where the worker looks at the stop signal. *)

\* The worker's thread makes this step: its loop, or the call its loop made.
InFlight == Worker("step") /\ ~Idle

\* C38: a stop signal is taken out of the command channel only by the loop,
\* one at a time, when the step of the iterator has returned and before its
\* item is sent; a loop that finds a signal there ends in that step with the
\* result channel as it was, and nothing is sent after the loop has ended;
\* a signal sent while a step is in flight, or before the first step, changes
\* nothing of the Session's call, and the loop never ends by it before a
\* step has returned its item.
C38_CooperativeStop ==
  /\ [][bg'.stop < bg.stop =>
          /\ Worker("step") /\ Idle
          /\ bg'.stop = bg.stop - 1
          /\ WorkerEnds /\ bg'.exit = "stop"]_vars
  /\ [][(Worker("step") /\ Idle /\ bg.stop > 0 /\ bg' # bg /\ bg'.stop <= bg.stop
           /\ bg'.tx = bg.tx /\ bg'.rx = bg.rx /\ bg'.received = bg.received) =>
          /\ WorkerEnds /\ bg'.exit = "stop"
          /\ bg'.queue = bg.queue
          /\ Len(bg'.produced) = Len(bg.produced) + 1]_vars
  /\ [][bg.phase \in {"exited", "joined"} =>
          /\ Len(bg'.queue) <= Len(bg.queue)
          /\ bg'.produced = bg.produced]_vars
  /\ [][bg'.queue # bg.queue /\ Len(bg'.queue) >= Len(bg.queue) =>
          /\ Worker("send")
          /\ bg'.queue = Append(bg.queue, HeldItem(bg))]_vars
  /\ [][bg'.stop > bg.stop =>
          /\ UNCHANGED <<dev, ready, busy, status, stack, ret, call, trace, iter, since>>
          /\ bg'.pc = bg.pc /\ bg'.phase = bg.phase
          /\ bg'.queue = bg.queue /\ bg'.produced = bg.produced]_vars
  /\ [][(InFlight \/ Worker("next")) => bg'.phase = "running"]_vars
  /\ [](bg.exit = "stop" => Len(bg.produced) >= 1)

\* C38, witness: the loop has ended by a stop signal it found after its first
\* step, a step with a mode change, ready waits and a read that returned Ok;
\* the item of that step was not sent.
C38_Witness ==
  /\ bg.phase = "exited"
  /\ bg.exit = "stop"
  /\ bg.stop = 0
  /\ bg.rx
  /\ Len(bg.produced) = 1
  /\ bg.produced[1][2] = "Ok"
  /\ bg.queue = <<>>
  /\ bg.received = <<>>
  /\ \E i \in 1..Len(trace) : trace[i][1] = "w" /\ trace[i][2] = CMD_CYCLE_MODE
  /\ \E i \in 1..Len(trace) : trace[i][1] = "read"


---------------------------------------------------------------------------
(* C39: the text of InvalidMode. *)

\* The start of a text up to the first of the words `stops`, or to its end.
RECURSIVE UpTo(_, _)
UpTo(text, stops) ==
  IF text = <<>> \/ Head(text) \in stops THEN <<>>
  ELSE <<Head(text)>> \o UpTo(Tail(text), stops)

\* What follows the words w in a text, up to the next words of the format
\* string or the end.
RECURSIVE After(_, _)
After(text, w) ==
  IF text = <<>> THEN <<>>
  ELSE IF Head(text) = w
    THEN UpTo(Tail(text), {"command requires mode ", " but current mode is "})
    ELSE After(Tail(text), w)

\* C39: the text of the InvalidMode error execute_measurement returns on a
\* cached mode Cycle(p) has the required mode, Standby, after the words
\* "requires mode" and the cached mode, Cycle(p), after the words "current
\* mode is".
C39_InvalidModeText ==
  (dec.fn = "display" /\ dec.pc = "done") =>
    /\ After(dec.out.v, "command requires mode ") = Debug(Standby)
    /\ After(dec.out.v, " but current mode is ") = Debug(Cycle(dec.period))

=============================================================================
